---------------------------- MODULE Spec2Model ----------------------------
(***************************************************************************)
(* A model of pkg/github/projects.go: the handlers of the Projects V2      *)
(* tools and the helpers they share (extractPaginationOptions, addOptions, *)
(* buildPageInfo, filterSpecialTypes, buildUpdateProjectItem).             *)
(*                                                                         *)
(* Go strings are sequences of one-character strings, so that lower-casing *)
(* and percent-encoding are computed, not assumed.                         *)
(***************************************************************************)
EXTENDS Integers, Sequences, FiniteSets, TLC

VARIABLES
    pc,       \* "idle" | "waiting" (request issued, client.Do pending) | "done"
    op,       \* the tool whose handler runs, "none" when idle
    args,     \* the arguments of the call (req.GetArguments())
    client,   \* number of getClient calls made by the invocation
    sent,     \* the requests the invocation handed to the transport, in order
    resp,     \* what client.Do returned: the response, the error, the decoded value
    closed,   \* TRUE once the invocation has closed resp.Body
    result,   \* what the handler returned: (*mcp.CallToolResult, error)
    call      \* a direct call of one helper: its name, inputs and outputs

vars == <<pc, op, args, client, sent, resp, closed, result, call>>
handlerVars == <<pc, op, args, client, sent, resp, closed, result>>

(***************************************************************************)
(* Bounds of the model.                                                    *)
(***************************************************************************)
MaxLen == 3         \* longest slice handed to filterSpecialTypes directly
MaxCursorLen == 2   \* longest cursor handed to buildPageInfo directly
MaxFields == 2      \* most fields of one decoded item or field list
MaxItems == 1       \* most items of one decoded item list

(***************************************************************************)
(* Program constants.                                                      *)
(***************************************************************************)
MaxProjectsPerPage == 50

(***************************************************************************)
(* Strings.                                                                *)
(***************************************************************************)
UpperCase ==
    << "A", "B", "C", "D", "E", "F", "G", "H", "I", "J", "K", "L", "M",
       "N", "O", "P", "Q", "R", "S", "T", "U", "V", "W", "X", "Y", "Z" >>
LowerCase ==
    << "a", "b", "c", "d", "e", "f", "g", "h", "i", "j", "k", "l", "m",
       "n", "o", "p", "q", "r", "s", "t", "u", "v", "w", "x", "y", "z" >>
Digits == << "0", "1", "2", "3", "4", "5", "6", "7", "8", "9" >>

Range(s) == { s[i] : i \in DOMAIN s }

\* All sequences over S of length at most n.
SeqUpTo(S, n) == UNION { [1..k -> S] : k \in 0..n }

\* unicode.ToLower on one character.
toLowerChar(c) ==
    IF \E i \in DOMAIN UpperCase : UpperCase[i] = c
    THEN LowerCase[CHOOSE i \in DOMAIN UpperCase : UpperCase[i] = c]
    ELSE c

\* A mistaken lower-casing that leaves the string as it is.
ToLowerIdentity(s) == s

\* strings.ToLower
ToLower(s) == [i \in DOMAIN s |-> toLowerChar(s[i])]

RECURSIVE digitsOf(_)
digitsOf(n) ==
    IF n < 10 THEN << Digits[n + 1] >>
    ELSE digitsOf(n \div 10) \o << Digits[(n % 10) + 1] >>

\* strconv.Itoa, as go-querystring formats an int field.
Itoa(n) == IF n < 0 THEN << "-" >> \o digitsOf(0 - n) ELSE digitsOf(n)

\* strings.Join of a list of strings.
RECURSIVE Join(_, _)
Join(strs, sep) ==
    IF Len(strs) = 0 THEN << >>
    ELSE IF Len(strs) = 1 THEN strs[1]
    ELSE strs[1] \o sep \o Join(Tail(strs), sep)

\* The data types used in the model, as Go strings.
assignees == << "a", "s", "s", "i", "g", "n", "e", "e", "s" >>
labels == << "l", "a", "b", "e", "l", "s" >>
linked_pull_requests ==
    << "l", "i", "n", "k", "e", "d", "_", "p", "u", "l", "l", "_",
       "r", "e", "q", "u", "e", "s", "t", "s" >>
milestone == << "m", "i", "l", "e", "s", "t", "o", "n", "e" >>
parent_issue ==
    << "p", "a", "r", "e", "n", "t", "_", "i", "s", "s", "u", "e" >>
repository == << "r", "e", "p", "o", "s", "i", "t", "o", "r", "y" >>
reviewers == << "r", "e", "v", "i", "e", "w", "e", "r", "s" >>
sub_issues_progress ==
    << "s", "u", "b", "_", "i", "s", "s", "u", "e", "s", "_",
       "p", "r", "o", "g", "r", "e", "s", "s" >>
title == << "t", "i", "t", "l", "e" >>

Labels == << "L", "a", "b", "e", "l", "s" >>
TITLE == << "T", "I", "T", "L", "E" >>
text == << "t", "e", "x", "t" >>
Text == << "T", "e", "x", "t" >>
EmptyString == << >>

(***************************************************************************)
(* Field records and filterSpecialTypes.                                   *)
(***************************************************************************)
\* "special" data types that are present in the project item's content object.
specialFieldDataTypes ==
    { assignees, labels, linked_pull_requests, milestone, parent_issue,
      repository, reviewers, sub_issues_progress, title }

\* A *projectV2Field and a *projectV2ItemFieldValue. ID tells the records of
\* one slice apart; isNil marks the nil pointer of the type.
projectV2Field(id, dt) ==
    [t |-> "field", isNil |-> FALSE, ID |-> id, DataType |-> dt]
projectV2ItemFieldValue(id, dt) ==
    [t |-> "value", isNil |-> FALSE, ID |-> id, DataType |-> dt]
NilRecord(shape, id) ==
    [t |-> shape, isNil |-> TRUE, ID |-> id, DataType |-> EmptyString]

\* getDataType without the lower-casing.
fieldGetDataTypeRaw(f) == IF f.isNil THEN EmptyString ELSE f.DataType

fieldGetDataType(f) == IF f.isNil THEN EmptyString ELSE ToLower(f.DataType)

\* getDataType without the lower-casing.
valueGetDataTypeRaw(v) == IF v.isNil THEN EmptyString ELSE v.DataType

valueGetDataType(v) == IF v.isNil THEN EmptyString ELSE ToLower(v.DataType)

\* The method set of the type parameter T of filterSpecialTypes.
getDataType(x) ==
    IF x.t = "value" THEN valueGetDataType(x) ELSE fieldGetDataType(x)

\* The loop of filterSpecialTypes from index i on, out being the slice so far.
RECURSIVE filterLoop(_, _, _)
filterLoop(fields, i, out) ==
    IF i > Len(fields) THEN out
    ELSE IF getDataType(fields[i]) \in specialFieldDataTypes
         THEN filterLoop(fields, i + 1, out)
         ELSE filterLoop(fields, i + 1, Append(out, fields[i]))

\* A filter that deletes in place and so skips the element after a deleted one.
RECURSIVE filterSkipLoop(_, _, _)
filterSkipLoop(fields, i, out) ==
    IF i > Len(fields) THEN out
    ELSE IF getDataType(fields[i]) \in specialFieldDataTypes
         THEN IF i + 1 > Len(fields) THEN out
              ELSE filterSkipLoop(fields, i + 2, Append(out, fields[i + 1]))
         ELSE filterSkipLoop(fields, i + 1, Append(out, fields[i]))

filterSpecialTypesSkipping(fields) ==
    IF Len(fields) = 0 THEN fields ELSE filterSkipLoop(fields, 1, << >>)

\* A filter that keeps the records in reverse order.
RECURSIVE filterReverseLoop(_, _, _)
filterReverseLoop(fields, i, out) ==
    IF i > Len(fields) THEN out
    ELSE IF getDataType(fields[i]) \in specialFieldDataTypes
         THEN filterReverseLoop(fields, i + 1, out)
         ELSE filterReverseLoop(fields, i + 1, << fields[i] >> \o out)

filterSpecialTypesReversing(fields) ==
    IF Len(fields) = 0 THEN fields ELSE filterReverseLoop(fields, 1, << >>)

filterSpecialTypes(fields) ==
    IF Len(fields) = 0 THEN fields ELSE filterLoop(fields, 1, << >>)

(***************************************************************************)
(* net/url: escaping, url.Values.Encode, url.Parse and URL.String.         *)
(***************************************************************************)
\* The characters of the model in byte order.
byteOrder ==
    << " ", "#", "%", "&", "+", ",", "-", "/" >> \o Digits \o << "=", "?" >>
        \o UpperCase \o << "_" >> \o LowerCase

Ord(c) == CHOOSE i \in DOMAIN byteOrder : byteOrder[i] = c

\* a < b as Go compares strings.
RECURSIVE Less(_, _)
Less(a, b) ==
    IF Len(b) = 0 THEN FALSE
    ELSE IF Len(a) = 0 THEN TRUE
    ELSE IF a[1] = b[1] THEN Less(Tail(a), Tail(b))
    ELSE Ord(a[1]) < Ord(b[1])

\* Index of the first c in s, 0 when there is none (strings.Index).
IndexOf(s, c) ==
    IF \E i \in DOMAIN s : s[i] = c
    THEN CHOOSE i \in DOMAIN s : s[i] = c /\ \A j \in 1..(i - 1) : s[j] # c
    ELSE 0

HexDigits == Range(Digits) \cup { "A", "B", "C", "D", "E", "F" }
                \cup { "a", "b", "c", "d", "e", "f" }

\* url.shouldEscape in mode encodeQueryComponent: letters, digits and -_.~ stay.
shouldEscape(c) ==
    ~ (c \in Range(UpperCase) \cup Range(LowerCase) \cup Range(Digits)
             \cup { "-", "_", ".", "~" })

\* The two upper-case hex digits of a character's byte.
hexOf(c) ==
    CASE c = "#" -> << "2", "3" >>
      [] c = "%" -> << "2", "5" >>
      [] c = "&" -> << "2", "6" >>
      [] c = "+" -> << "2", "B" >>
      [] c = "," -> << "2", "C" >>
      [] c = "/" -> << "2", "F" >>
      [] c = "=" -> << "3", "D" >>
      [] c = "?" -> << "3", "F" >>

EscapedChars == { "#", "%", "&", "+", ",", "/", "=", "?" }

\* The character of a byte given as two hex digits (unhex); "?" stands for a
\* byte that is no character of the model.
charOfHex(h) ==
    IF \E c \in EscapedChars : hexOf(c) = h
    THEN CHOOSE c \in EscapedChars : hexOf(c) = h
    ELSE "?"

\* An escape that copies every character as it is.
QueryEscapeIdentity(s) == s

\* url.QueryEscape
RECURSIVE QueryEscape(_)
QueryEscape(s) ==
    IF Len(s) = 0 THEN << >>
    ELSE (IF ~ shouldEscape(s[1]) THEN << s[1] >>
          ELSE IF s[1] = " " THEN << "+" >>
          ELSE << "%" >> \o hexOf(s[1])) \o QueryEscape(Tail(s))

\* url.QueryUnescape of a string QueryEscape can produce.
RECURSIVE QueryUnescape(_)
QueryUnescape(s) ==
    IF Len(s) = 0 THEN << >>
    ELSE IF s[1] = "%" /\ Len(s) >= 3
         THEN << charOfHex(SubSeq(s, 2, 3)) >> \o QueryUnescape(SubSeq(s, 4, Len(s)))
    ELSE IF s[1] = "+" THEN << " " >> \o QueryUnescape(Tail(s))
    ELSE << s[1] >> \o QueryUnescape(Tail(s))

\* TRUE iff every % of s starts a %XX with two hex digits (url.unescape's check).
RECURSIVE validEscapes(_)
validEscapes(s) ==
    IF Len(s) = 0 THEN TRUE
    ELSE IF s[1] = "%"
         THEN /\ Len(s) >= 3
              /\ s[2] \in HexDigits
              /\ s[3] \in HexDigits
              /\ validEscapes(SubSeq(s, 4, Len(s)))
    ELSE validEscapes(Tail(s))

\* url.Parse of a relative reference: the fragment is cut at the first #, the
\* query at the first ?, and the path and the fragment must unescape.
urlParse(s) ==
    LET hash == IndexOf(s, "#")
        noFrag == IF hash = 0 THEN s ELSE SubSeq(s, 1, hash - 1)
        frag == IF hash = 0 THEN << >> ELSE SubSeq(s, hash + 1, Len(s))
        qm == IndexOf(noFrag, "?")
        path == IF qm = 0 THEN noFrag ELSE SubSeq(noFrag, 1, qm - 1)
        rawq == IF qm = 0 THEN << >> ELSE SubSeq(noFrag, qm + 1, Len(noFrag))
    IN  [err |-> ~ (validEscapes(path) /\ validEscapes(frag)),
         Path |-> path, RawQuery |-> rawq, Fragment |-> frag]

\* URL.String of a parsed relative reference.
urlString(u) ==
    u.Path
      \o (IF Len(u.RawQuery) > 0 THEN << "?" >> \o u.RawQuery ELSE << >>)
      \o (IF Len(u.Fragment) > 0 THEN << "#" >> \o u.Fragment ELSE << >>)

\* The least string of a non-empty set.
minString(K) == CHOOSE k \in K : \A j \in K : j = k \/ Less(k, j)

RECURSIVE sortStrings(_)
sortStrings(K) ==
    IF K = {} THEN << >>
    ELSE << minString(K) >> \o sortStrings(K \ { minString(K) })

\* Every order of the keys: the orders a range over a Go map may take.
mapRangeOrders(K) ==
    { p \in [1..Cardinality(K) -> K] : \A i, j \in DOMAIN p : i # j => p[i] # p[j] }

\* The orders in which url.Values.Encode may write the keys: it sorts them.
encodeKeyOrders(K) == { sortStrings(K) }

\* url.Values.Encode writing the keys of v in the given order; v maps a key to
\* its list of values.
RECURSIVE encodeInOrder(_, _)
encodeInOrder(v, order) ==
    IF Len(order) = 0 THEN << >>
    ELSE LET k == order[1]
             one == Join([i \in DOMAIN v[k] |->
                            QueryEscape(k) \o << "=" >> \o QueryEscape(v[k][i])],
                         << "&" >>)
         IN  IF Len(order) = 1 THEN one
             ELSE one \o << "&" >> \o encodeInOrder(v, Tail(order))

(***************************************************************************)
(* The option structs and go-querystring's query.Values.                   *)
(***************************************************************************)
keyPerPage == << "p", "e", "r", "_", "p", "a", "g", "e" >>
keyAfter == << "a", "f", "t", "e", "r" >>
keyBefore == << "b", "e", "f", "o", "r", "e" >>
keyQ == << "q" >>
keyFields == << "f", "i", "e", "l", "d", "s" >>

\* One struct field with its url tag: the key, the kind and the value.
intField(key, n) == [key |-> key, kind |-> "int", int |-> n, str |-> << >>]
stringField(key, s) == [key |-> key, kind |-> "string", int |-> 0, str |-> s]

paginationOptions(perPage, aft, bef) ==
    [type |-> "paginationOptions",
     PerPage |-> perPage, After |-> aft, Before |-> bef]
filterQueryOptions(query) == [type |-> "filterQueryOptions", Query |-> query]
fieldSelectionOptions(fs) == [type |-> "fieldSelectionOptions", Fields |-> fs]
listProjectItemsOptions(p, f, s) ==
    [type |-> "listProjectItemsOptions",
     PerPage |-> p.PerPage, After |-> p.After, Before |-> p.Before,
     Query |-> f.Query, Fields |-> s.Fields]
\* A nil pointer handed to addOptions.
nilOptions == [type |-> "nilPointer"]

\* The tagged fields of each struct, in declaration order.
paginationFields(p) ==
    << intField(keyPerPage, p.PerPage), stringField(keyAfter, p.After),
       stringField(keyBefore, p.Before) >>
filterQueryFields(f) == << stringField(keyQ, f.Query) >>
fieldSelectionFields(f) == << stringField(keyFields, f.Fields) >>

\* listProjectItemsOptions embeds the three groups; query.Values flattens them.
listProjectItemsFields(o) ==
    paginationFields(o) \o filterQueryFields(o) \o fieldSelectionFields(o)

\* An option value handed to addOptions: its struct type and its fields.
structFields(opts) ==
    CASE opts.type = "paginationOptions" -> paginationFields(opts)
      [] opts.type = "filterQueryOptions" -> filterQueryFields(opts)
      [] opts.type = "fieldSelectionOptions" -> fieldSelectionFields(opts)
      [] opts.type = "listProjectItemsOptions" -> listProjectItemsFields(opts)

\* A tag without ",omitempty".
isEmptyValueNever(f) == FALSE

\* The ",omitempty" of the url tags: the zero value of the field's type.
isEmptyValue(f) == IF f.kind = "int" THEN f.int = 0 ELSE Len(f.str) = 0

formatField(f) == IF f.kind = "int" THEN Itoa(f.int) ELSE f.str

\* query.Values: every non-empty tagged field is added under its key.
queryValues(opts) ==
    LET fs == structFields(opts)
        kept == SelectSeq(fs, LAMBDA f : ~ isEmptyValue(f))
        keys == { kept[i].key : i \in DOMAIN kept }
    IN  [k \in keys |->
            LET mine == SelectSeq(kept, LAMBDA f : f.key = k)
            IN  [i \in DOMAIN mine |-> formatField(mine[i])]]

\* addOptions without the test of url.Parse's error.
addOptionsUnparsed(s, opts) ==
    IF opts.type = "nilPointer" THEN { [url |-> s, err |-> FALSE] }
    ELSE LET u == urlParse(s)
             qs == queryValues(opts)
         IN  { [url |-> urlString([u EXCEPT !.RawQuery = encodeInOrder(qs, order)]),
                err |-> FALSE] : order \in encodeKeyOrders(DOMAIN qs) }

\* addOptions(s, opts): the set of (string, error) pairs it may return.
addOptions(s, opts) ==
    IF opts.type = "nilPointer" THEN { [url |-> s, err |-> FALSE] }
    ELSE LET u == urlParse(s)
             qs == queryValues(opts)
         IN  IF u.err THEN { [url |-> s, err |-> TRUE] }
             ELSE { [url |-> urlString([u EXCEPT !.RawQuery = encodeInOrder(qs, order)]),
                     err |-> FALSE] : order \in encodeKeyOrders(DOMAIN qs) }

(***************************************************************************)
(* Page info.                                                              *)
(***************************************************************************)
\* buildPageInfo with the two cursors swapped.
buildPageInfoSwapped(r) ==
    [HasNextPage |-> r.Before # EmptyString,
     HasPreviousPage |-> r.After # EmptyString,
     NextCursor |-> r.Before,
     PrevCursor |-> r.After]

buildPageInfo(r) ==
    [HasNextPage |-> r.After # EmptyString,
     HasPreviousPage |-> r.Before # EmptyString,
     NextCursor |-> r.After,
     PrevCursor |-> r.Before]

\* A pageInfo whose cursors are written even when empty.
pageInfoKeysAll(pi) ==
    { "hasNextPage", "hasPreviousPage", "nextCursor", "prevCursor" }

\* The keys json.Marshal writes for a pageInfo: the cursors are omitempty.
pageInfoKeys(pi) ==
    { "hasNextPage", "hasPreviousPage" }
        \cup (IF pi.NextCursor # EmptyString THEN { "nextCursor" } ELSE {})
        \cup (IF pi.PrevCursor # EmptyString THEN { "prevCursor" } ELSE {})

\* json.Marshal of a pageInfo: a JSON object as a function from its keys.
marshalPageInfo(pi) ==
    [k \in pageInfoKeys(pi) |->
        CASE k = "hasNextPage" -> pi.HasNextPage
          [] k = "hasPreviousPage" -> pi.HasPreviousPage
          [] k = "nextCursor" -> pi.NextCursor
          [] k = "prevCursor" -> pi.PrevCursor]

(***************************************************************************)
(* Arguments of a tool call and the parameter helpers.                     *)
(***************************************************************************)
\* A JSON value of the arguments map; Absent is a key the map does not have.
Absent == [t |-> "absent", v |-> 0]
Null == [t |-> "null", v |-> 0]
\* A JSON number decodes to a float64: v is its integer part rounded down, and
\* half says that it lies one half above v.
Num(n) == [t |-> "number", v |-> n, half |-> FALSE]
NumAndHalf(n) == [t |-> "number", v |-> n, half |-> TRUE]
Str(s) == [t |-> "string", v |-> s]
Arr(a) == [t |-> "array", v |-> a]
Obj(o) == [t |-> "object", v |-> o]

\* OptionalParam[string]: the zero value when absent, an error when not a string.
OptionalParam(a, p) ==
    IF a[p].t = "absent" THEN [err |-> FALSE, v |-> EmptyString]
    ELSE IF a[p].t # "string" THEN [err |-> TRUE, v |-> EmptyString]
    ELSE [err |-> FALSE, v |-> a[p].v]

\* OptionalIntParam: the zero value when absent, an error when not a number.
OptionalIntParam(a, p) ==
    IF a[p].t = "absent" THEN [err |-> FALSE, v |-> 0]
    ELSE IF a[p].t # "number" THEN [err |-> TRUE, v |-> 0]
    ELSE [err |-> FALSE, v |-> a[p].v]

\* OptionalIntParamWithDefault: d when the parameter is absent or zero.
OptionalIntParamWithDefault(a, p, d) ==
    LET r == OptionalIntParam(a, p)
    IN  IF r.err THEN r
        ELSE IF r.v = 0 THEN [err |-> FALSE, v |-> d]
        ELSE r

\* RequiredParam[string]: an error when absent, not a string, or empty.
RequiredParam(a, p) ==
    IF a[p].t # "string" \/ a[p].v = EmptyString
    THEN [err |-> TRUE, v |-> EmptyString]
    ELSE [err |-> FALSE, v |-> a[p].v]

\* RequiredInt: an error when absent, not a number, or zero.
RequiredInt(a, p) ==
    IF a[p].t # "number" \/ a[p].v = 0
    THEN [err |-> TRUE, v |-> 0]
    ELSE [err |-> FALSE, v |-> a[p].v]

\* OptionalStringArrayParam: empty when absent, an error when not an array of
\* strings.
OptionalStringArrayParam(a, p) ==
    IF a[p].t = "absent" THEN [err |-> FALSE, v |-> << >>]
    ELSE IF a[p].t # "array" \/ \E i \in DOMAIN a[p].v : a[p].v[i].t # "string"
         THEN [err |-> TRUE, v |-> << >>]
    ELSE [err |-> FALSE, v |-> [i \in DOMAIN a[p].v |-> a[p].v[i].v]]

\* extractPaginationOptions without the clamp.
clampPerPageMissing(perPage) == perPage

\* The clamp of extractPaginationOptions.
clampPerPage(perPage) ==
    IF perPage > MaxProjectsPerPage THEN MaxProjectsPerPage ELSE perPage

\* extractPaginationOptions with the two cursors exchanged.
extractPaginationOptionsSwapped(a) ==
    LET perPage == OptionalIntParamWithDefault(a, "per_page", MaxProjectsPerPage)
        aft == OptionalParam(a, "after")
        bef == OptionalParam(a, "before")
    IN  IF perPage.err \/ aft.err \/ bef.err
        THEN [err |-> TRUE, opts |-> paginationOptions(0, EmptyString, EmptyString)]
        ELSE [err |-> FALSE,
              opts |-> paginationOptions(clampPerPage(perPage.v), bef.v, aft.v)]

\* extractPaginationOptions leaving an absent page size at zero.
extractPaginationOptionsNoDefault(a) ==
    LET perPage == OptionalIntParam(a, "per_page")
        aft == OptionalParam(a, "after")
        bef == OptionalParam(a, "before")
    IN  IF perPage.err \/ aft.err \/ bef.err
        THEN [err |-> TRUE, opts |-> paginationOptions(0, EmptyString, EmptyString)]
        ELSE [err |-> FALSE,
              opts |-> paginationOptions(clampPerPage(perPage.v), aft.v, bef.v)]

extractPaginationOptions(a) ==
    LET perPage == OptionalIntParamWithDefault(a, "per_page", MaxProjectsPerPage)
        aft == OptionalParam(a, "after")
        bef == OptionalParam(a, "before")
    IN  IF perPage.err \/ aft.err \/ bef.err
        THEN [err |-> TRUE, opts |-> paginationOptions(0, EmptyString, EmptyString)]
        ELSE [err |-> FALSE,
              opts |-> paginationOptions(clampPerPage(perPage.v), aft.v, bef.v)]

(***************************************************************************)
(* The state between invocations, and direct calls of the helpers.         *)
(***************************************************************************)
ArgNames ==
    { "owner", "owner_type", "project_number", "query", "per_page", "after",
      "before", "fields", "field_id", "item_id", "item_type", "updated_field" }

NoArgs == [p \in ArgNames |-> Absent]
NoResp == [t |-> "none"]
NoResult == [kind |-> "none"]
NoCall == [fn |-> "none"]

HandlersIdle ==
    /\ pc = "idle"
    /\ op = "none"
    /\ args = NoArgs
    /\ client = 0
    /\ sent = << >>
    /\ resp = NoResp
    /\ closed = FALSE
    /\ result = NoResult

\* The data types a record handed to filterSpecialTypes may declare: the nine
\* special ones, spellings that differ in case, and others.
FilterChoices ==
    << assignees, labels, linked_pull_requests, milestone, parent_issue,
       repository, reviewers, sub_issues_progress, title,
       Labels, TITLE, text, Text >>

\* The record of the given shape at position id; choice 0 is the nil pointer.
recordOf(shape, id, c) ==
    IF c = 0 THEN NilRecord(shape, id)
    ELSE IF shape = "field" THEN projectV2Field(id, FilterChoices[c])
    ELSE projectV2ItemFieldValue(id, FilterChoices[c])

FilterInputs ==
    { [i \in DOMAIN cs |-> recordOf(shape, i, cs[i])] :
        cs \in SeqUpTo(0..Len(FilterChoices), MaxLen),
        shape \in { "field", "value" } }

InitFilter ==
    /\ HandlersIdle
    /\ call \in { [fn |-> "filterSpecialTypes", stage |-> 0, in |-> s,
                   out |-> << >>, again |-> << >>] : s \in FilterInputs }

\* filtered := filterSpecialTypes(fields)
FilterCall ==
    /\ call.fn = "filterSpecialTypes"
    /\ call.stage = 0
    /\ call' = [call EXCEPT !.stage = 1, !.out = filterSpecialTypes(call.in)]
    /\ UNCHANGED handlerVars

\* filterSpecialTypes(filtered), on the slice the first call returned
FilterAgain ==
    /\ call.fn = "filterSpecialTypes"
    /\ call.stage = 1
    /\ call' = [call EXCEPT !.stage = 2, !.again = filterSpecialTypes(call.out)]
    /\ UNCHANGED handlerVars

NextFilter == FilterCall \/ FilterAgain

SpecFilter == InitFilter /\ [][NextFilter]_vars

\* The cursors a response may carry.
CursorChars == { "c", "=", " " }
Cursors == SeqUpTo(CursorChars, MaxCursorLen)

InitPageInfo ==
    /\ HandlersIdle
    /\ call \in { [fn |-> "buildPageInfo", stage |-> 0,
                   resp |-> [After |-> a, Before |-> b],
                   out |-> buildPageInfo([After |-> << >>, Before |-> << >>])] :
                  a \in Cursors, b \in Cursors }

\* buildPageInfo(resp)
BuildPageInfoCall ==
    /\ call.fn = "buildPageInfo"
    /\ call.stage = 0
    /\ call' = [call EXCEPT !.stage = 1, !.out = buildPageInfo(call.resp)]
    /\ UNCHANGED handlerVars

NextPageInfo == BuildPageInfoCall

SpecPageInfo == InitPageInfo /\ [][NextPageInfo]_vars

\* The strings an option field may hold: empty, plain, and one made of the
\* characters that a query string reserves.
plainValue == << "c", "1" >>
reservedValue == << "a", " ", "&", "=", "%", "+", ",", "#", "?", "/" >>
OptionStrings == { EmptyString, plainValue, reservedValue }
OptionPerPages == { 0 - 1, 0, 7, MaxProjectsPerPage }

PaginationInputs ==
    { paginationOptions(n, a, b) :
        n \in OptionPerPages, a \in OptionStrings, b \in OptionStrings }
OptionInputs ==
    PaginationInputs
      \cup { filterQueryOptions(s) : s \in OptionStrings }
      \cup { fieldSelectionOptions(s) : s \in OptionStrings }
      \cup { listProjectItemsOptions(p, filterQueryOptions(s), fieldSelectionOptions(f)) :
               p \in PaginationInputs, s \in OptionStrings, f \in OptionStrings }
      \cup { nilOptions }

\* Base paths: one that parses and one with a bad percent-escape.
goodBase == << "o", "r", "g", "s", "/", "o", "/", "i", "t", "e", "m", "s" >>
badBase == << "o", "r", "g", "s", "/", "%", "z", "z", "/", "i", "t", "e", "m", "s" >>
BaseInputs == { goodBase, badBase }

NoReturn == [url |-> << >>, err |-> FALSE]

InitOptions ==
    /\ HandlersIdle
    /\ call \in { [fn |-> "addOptions", stage |-> 0, s |-> s, opts |-> o,
                   out |-> NoReturn, again |-> NoReturn] :
                  s \in BaseInputs, o \in OptionInputs }

\* url, err := addOptions(s, opts)
AddOptionsCall ==
    /\ call.fn = "addOptions"
    /\ call.stage = 0
    /\ \E r \in addOptions(call.s, call.opts) :
          call' = [call EXCEPT !.stage = 1, !.out = r]
    /\ UNCHANGED handlerVars

\* a second addOptions(s, opts) with the same arguments
AddOptionsAgain ==
    /\ call.fn = "addOptions"
    /\ call.stage = 1
    /\ \E r \in addOptions(call.s, call.opts) :
          call' = [call EXCEPT !.stage = 2, !.again = r]
    /\ UNCHANGED handlerVars

NextOptions == AddOptionsCall \/ AddOptionsAgain

SpecOptions == InitOptions /\ [][NextOptions]_vars

(***************************************************************************)
(* What a handler returns, what it sends and what the transport answers.   *)
(***************************************************************************)
NoJSON == [t |-> "none"]
NoBody == [t |-> "none"]
NoOpts == paginationOptions(0, EmptyString, EmptyString)

\* mcp.NewToolResultText(string(r)), nil
ToolResultText(json) ==
    [kind |-> "text", text |-> "", body |-> "", json |-> json]
\* mcp.NewToolResultError(text), nil; body is the response body the text quotes
ToolResultError(msg, body) ==
    [kind |-> "error", text |-> msg, body |-> body, json |-> NoJSON]
\* ghErrors.NewGitHubAPIErrorResponse(ctx, msg, resp, err), nil
GitHubAPIErrorResponse(msg) ==
    [kind |-> "apiError", text |-> msg, body |-> "", json |-> NoJSON]
\* nil, fmt.Errorf(...)
FatalError(msg) ==
    [kind |-> "fatal", text |-> msg, body |-> "", json |-> NoJSON]

\* A request built by client.NewRequest and handed to client.Do.
Request(method, url, body) ==
    [api |-> "Do", method |-> method, url |-> url, body |-> body,
     owner |-> EmptyString, number |-> 0, opts |-> NoOpts, query |-> EmptyString]
\* A call of a method of client.Projects, which builds the request itself.
ProjectsCall(api, owner, number, opts, query) ==
    [api |-> api, method |-> "GET", url |-> EmptyString, body |-> NoBody,
     owner |-> owner, number |-> number, opts |-> opts, query |-> query]

\* What the part of a handler before the transport call comes to: it has
\* returned ret, or it has sent one request; client counts the getClient calls.
Returned(ret, c) == [ret |-> ret, client |-> c, sent |-> << >>]
Issued(req) == [ret |-> NoResult, client |-> 1, sent |-> << req >>]

\* client.NewRequest parses the target against the base URL.
NewRequestFails(url) == urlParse(url).err

strOrg == << "o", "r", "g" >>
strUser == << "u", "s", "e", "r" >>
strTeam == << "t", "e", "a", "m" >>
strIssue == << "i", "s", "s", "u", "e" >>
strPullRequest == << "p", "u", "l", "l", "_", "r", "e", "q", "u", "e", "s", "t" >>
strIssueType == << "I", "s", "s", "u", "e" >>
strPullRequestType == << "P", "u", "l", "l", "R", "e", "q", "u", "e", "s", "t" >>
strDraft == << "d", "r", "a", "f", "t" >>
sOrgs == << "o", "r", "g", "s", "/" >>
sUsers == << "u", "s", "e", "r", "s", "/" >>
sProjectsV2 == << "/", "p", "r", "o", "j", "e", "c", "t", "s", "V", "2", "/" >>
sFields == << "/", "f", "i", "e", "l", "d", "s" >>
sItems == << "/", "i", "t", "e", "m", "s" >>
sSlash == << "/" >>

\* A scope test that takes every owner type for an organization.
isOrgAlways(ownerType) == TRUE

\* ownerType != "user"
isOrgUnlessUser(ownerType) == ownerType # strUser

\* ownerType == "org"
isOrg(ownerType) == ownerType = strOrg

\* fmt.Sprintf("orgs/%s/projectsV2/%d/fields", ...) or its users/ twin
listProjectFieldsURL(ownerType, owner, n) ==
    IF isOrg(ownerType)
    THEN sOrgs \o owner \o sProjectsV2 \o Itoa(n) \o sFields
    ELSE sUsers \o owner \o sProjectsV2 \o Itoa(n) \o sFields

getProjectFieldURL(ownerType, owner, n, fieldID) ==
    IF isOrg(ownerType)
    THEN sOrgs \o owner \o sProjectsV2 \o Itoa(n) \o sFields \o sSlash \o Itoa(fieldID)
    ELSE sUsers \o owner \o sProjectsV2 \o Itoa(n) \o sFields \o sSlash \o Itoa(fieldID)

listProjectItemsURL(ownerType, owner, n) ==
    IF isOrg(ownerType)
    THEN sOrgs \o owner \o sProjectsV2 \o Itoa(n) \o sItems
    ELSE sUsers \o owner \o sProjectsV2 \o Itoa(n) \o sItems

getProjectItemURL(ownerType, owner, n, itemID) ==
    IF isOrg(ownerType)
    THEN sOrgs \o owner \o sProjectsV2 \o Itoa(n) \o sItems \o sSlash \o Itoa(itemID)
    ELSE sUsers \o owner \o sProjectsV2 \o Itoa(n) \o sItems \o sSlash \o Itoa(itemID)

addProjectItemURL(ownerType, owner, n) ==
    IF isOrg(ownerType)
    THEN sOrgs \o owner \o sProjectsV2 \o Itoa(n) \o sItems
    ELSE sUsers \o owner \o sProjectsV2 \o Itoa(n) \o sItems

updateProjectItemURL(ownerType, owner, n, itemID) ==
    IF isOrg(ownerType)
    THEN sOrgs \o owner \o sProjectsV2 \o Itoa(n) \o sItems \o sSlash \o Itoa(itemID)
    ELSE sUsers \o owner \o sProjectsV2 \o Itoa(n) \o sItems \o sSlash \o Itoa(itemID)

deleteProjectItemURL(ownerType, owner, n, itemID) ==
    IF isOrg(ownerType)
    THEN sOrgs \o owner \o sProjectsV2 \o Itoa(n) \o sItems \o sSlash \o Itoa(itemID)
    ELSE sUsers \o owner \o sProjectsV2 \o Itoa(n) \o sItems \o sSlash \o Itoa(itemID)

toNewProjectType(projType) ==
    CASE ToLower(projType) = strIssue -> strIssueType
      [] ToLower(projType) = strPullRequest -> strPullRequestType
      [] OTHER -> EmptyString

newProjectItem(id, type) == [t |-> "newProjectItem", ID |-> id, Type |-> type]
updateProjectItem(id, value) == [ID |-> id, Value |-> value]
updateProjectItemPayload(fs) == [t |-> "updateProjectItemPayload", Fields |-> fs]

\* A nil map[string]any, and a nil *updateProjectItem.
NilMap == [t |-> "nilMap", v |-> 0]
NilPointer == [isNil |-> TRUE]

\* int(f) of a float64 f keeps the integer part (for a finite f in range).
intOfFloat64Floor(f) == f.v
intOfFloat64(f) == IF f.half /\ f.v < 0 THEN f.v + 1 ELSE f.v

\* The texts of the errors of buildUpdateProjectItem, cut at the key they name.
errNilInput == << "updated_field", " must be an object" >>
errIdRequired == << "updated_field.", "id", " is required" >>
errIdNotNumber == << "updated_field.", "id", " must be a number" >>
errValueRequired == << "updated_field.", "value", " is required" >>
NoError == << >>

\* buildUpdateProjectItem without the test for a missing value.
buildUpdateProjectItemLenient(input) ==
    IF input = NilMap
    THEN [err |-> errNilInput, payload |-> NilPointer]
    ELSE IF "id" \notin DOMAIN input.v
    THEN [err |-> errIdRequired, payload |-> NilPointer]
    ELSE IF input.v["id"].t # "number"
    THEN [err |-> errIdNotNumber, payload |-> NilPointer]
    ELSE [err |-> NoError,
          payload |-> updateProjectItem(intOfFloat64(input.v["id"]),
                                        IF "value" \in DOMAIN input.v
                                        THEN input.v["value"] ELSE Null)]

\* buildUpdateProjectItem taking a null value for a missing one.
buildUpdateProjectItemNullMissing(input) ==
    IF input = NilMap
    THEN [err |-> errNilInput, payload |-> NilPointer]
    ELSE IF "id" \notin DOMAIN input.v
    THEN [err |-> errIdRequired, payload |-> NilPointer]
    ELSE IF input.v["id"].t # "number"
    THEN [err |-> errIdNotNumber, payload |-> NilPointer]
    ELSE IF "value" \notin DOMAIN input.v \/ input.v["value"] = Null
    THEN [err |-> errValueRequired, payload |-> NilPointer]
    ELSE [err |-> NoError,
          payload |-> updateProjectItem(intOfFloat64(input.v["id"]), input.v["value"])]

\* buildUpdateProjectItem(input): input is Obj(m), m a function from its keys.
buildUpdateProjectItem(input) ==
    IF input = NilMap
    THEN [err |-> errNilInput, payload |-> NilPointer]
    ELSE IF "id" \notin DOMAIN input.v
    THEN [err |-> errIdRequired, payload |-> NilPointer]
    ELSE IF input.v["id"].t # "number"
    THEN [err |-> errIdNotNumber, payload |-> NilPointer]
    ELSE IF "value" \notin DOMAIN input.v
    THEN [err |-> errValueRequired, payload |-> NilPointer]
    ELSE [err |-> NoError,
          payload |-> updateProjectItem(intOfFloat64(input.v["id"]), input.v["value"])]

\* The maps handed to buildUpdateProjectItem directly: nil, and every choice
\* of "id", "value" and one more key, each present or not.
UpdateIds ==
    { Absent, Num(9), Num(0), Num(0 - 1), NumAndHalf(9), NumAndHalf(0 - 2),
      Str(<< "9" >>), Null, Arr(<< Num(9) >>) }
UpdateValues ==
    { Absent, Null, Num(1), Str(<< "x" >>), Str(EmptyString),
      Arr(<< Str(<< "x" >>) >>), Obj([k \in { "id" } |-> Num(1)]) }
UpdateOthers == { Absent, Str(<< "x" >>) }
mapOf(id, value, other) ==
    LET keys == (IF id = Absent THEN {} ELSE { "id" })
                  \cup (IF value = Absent THEN {} ELSE { "value" })
                  \cup (IF other = Absent THEN {} ELSE { "name" })
    IN  Obj([k \in keys |-> CASE k = "id" -> id [] k = "value" -> value [] OTHER -> other])
UpdateInputs ==
    { NilMap } \cup { mapOf(i, v, o) : i \in UpdateIds, v \in UpdateValues, o \in UpdateOthers }

InitUpdate ==
    /\ HandlersIdle
    /\ call \in { [fn |-> "buildUpdateProjectItem", stage |-> 0, input |-> m,
                   out |-> [err |-> NoError, payload |-> NilPointer]] :
                  m \in UpdateInputs }

\* payload, err := buildUpdateProjectItem(input)
BuildUpdateProjectItemCall ==
    /\ call.fn = "buildUpdateProjectItem"
    /\ call.stage = 0
    /\ call' = [call EXCEPT !.stage = 1, !.out = buildUpdateProjectItem(call.input)]
    /\ UNCHANGED handlerVars

NextUpdate == BuildUpdateProjectItemCall

SpecUpdate == InitUpdate /\ [][NextUpdate]_vars

(***************************************************************************)
(* The handlers. Each is cut at its transport call: the part before it     *)
(* gives the set of its outcomes (a return, or the request sent), the part *)
(* after it gives the result and whether resp.Body was closed.             *)
(***************************************************************************)
ProjectUpdateFailedError == "failed to update a project item"
ProjectAddFailedError == "failed to add a project item"
ProjectDeleteFailedError == "failed to delete a project item"
ProjectListFailedError == "failed to list project items"

StatusOK == 200
StatusCreated == 201
StatusNoContent == 204

Finished(ret, isClosed) == [ret |-> ret, closed |-> isClosed]

listProjectsStart(a, clientOk) ==
    LET owner == RequiredParam(a, "owner")
        ownerType == RequiredParam(a, "owner_type")
        queryStr == OptionalParam(a, "query")
        pagination == extractPaginationOptions(a)
    IN  IF owner.err THEN { Returned(ToolResultError("owner", ""), 0) }
        ELSE IF ownerType.err THEN { Returned(ToolResultError("owner_type", ""), 0) }
        ELSE IF queryStr.err THEN { Returned(ToolResultError("query", ""), 0) }
        ELSE IF pagination.err THEN { Returned(ToolResultError("pagination", ""), 0) }
        ELSE IF ~ clientOk THEN { Returned(ToolResultError("getClient", ""), 1) }
        ELSE IF isOrg(ownerType.v)
        THEN { Issued(ProjectsCall("ListProjectsForOrg", owner.v, 0,
                                   pagination.opts, queryStr.v)) }
        ELSE { Issued(ProjectsCall("ListProjectsForUser", owner.v, 0,
                                   pagination.opts, queryStr.v)) }

listProjectsFinish(r) ==
    IF r.err THEN Finished(GitHubAPIErrorResponse("failed to list projects"), FALSE)
    ELSE Finished(ToolResultText([projects |-> r.v,
                                  pageInfo |-> marshalPageInfo(buildPageInfo(r))]),
                  TRUE)

getProjectStart(a, clientOk) ==
    LET projectNumber == RequiredInt(a, "project_number")
        owner == RequiredParam(a, "owner")
        ownerType == RequiredParam(a, "owner_type")
    IN  IF projectNumber.err THEN { Returned(ToolResultError("project_number", ""), 0) }
        ELSE IF owner.err THEN { Returned(ToolResultError("owner", ""), 0) }
        ELSE IF ownerType.err THEN { Returned(ToolResultError("owner_type", ""), 0) }
        ELSE IF ~ clientOk THEN { Returned(ToolResultError("getClient", ""), 1) }
        ELSE IF isOrg(ownerType.v)
        THEN { Issued(ProjectsCall("GetProjectForOrg", owner.v, projectNumber.v,
                                   NoOpts, EmptyString)) }
        ELSE { Issued(ProjectsCall("GetProjectForUser", owner.v, projectNumber.v,
                                   NoOpts, EmptyString)) }

getProjectFinish(r) ==
    IF r.err THEN Finished(GitHubAPIErrorResponse("failed to get project"), FALSE)
    ELSE IF r.StatusCode # StatusOK
    THEN IF r.ReadErr
         THEN Finished(FatalError("failed to read response body"), TRUE)
         ELSE Finished(ToolResultError("failed to get project", r.Body), TRUE)
    ELSE Finished(ToolResultText([project |-> r.v]), TRUE)

listProjectFieldsStart(a, clientOk) ==
    LET owner == RequiredParam(a, "owner")
        ownerType == RequiredParam(a, "owner_type")
        projectNumber == RequiredInt(a, "project_number")
        pagination == extractPaginationOptions(a)
        url == listProjectFieldsURL(ownerType.v, owner.v, projectNumber.v)
    IN  IF owner.err THEN { Returned(ToolResultError("owner", ""), 0) }
        ELSE IF ownerType.err THEN { Returned(ToolResultError("owner_type", ""), 0) }
        ELSE IF projectNumber.err THEN { Returned(ToolResultError("project_number", ""), 0) }
        ELSE IF pagination.err THEN { Returned(ToolResultError("pagination", ""), 0) }
        ELSE IF ~ clientOk THEN { Returned(ToolResultError("getClient", ""), 1) }
        ELSE { IF w.err THEN Returned(FatalError("failed to add options to request"), 1)
               ELSE IF NewRequestFails(w.url)
               THEN Returned(FatalError("failed to create request"), 1)
               ELSE Issued(Request("GET", w.url, NoBody)) :
               w \in addOptions(url, pagination.opts) }

\* ListProjectFields returning a Go error when the transport call fails.
listProjectFieldsFinishFatal(r) ==
    IF r.err
    THEN Finished(FatalError("failed to list project fields"), FALSE)
    ELSE Finished(ToolResultText([fields |-> filterSpecialTypes(r.v),
                                  pageInfo |-> marshalPageInfo(buildPageInfo(r))]),
                  TRUE)

listProjectFieldsFinish(r) ==
    IF r.err
    THEN Finished(GitHubAPIErrorResponse("failed to list project fields"), FALSE)
    ELSE Finished(ToolResultText([fields |-> filterSpecialTypes(r.v),
                                  pageInfo |-> marshalPageInfo(buildPageInfo(r))]),
                  TRUE)

getProjectFieldStart(a, clientOk) ==
    LET owner == RequiredParam(a, "owner")
        ownerType == RequiredParam(a, "owner_type")
        projectNumber == RequiredInt(a, "project_number")
        fieldID == RequiredInt(a, "field_id")
        url == getProjectFieldURL(ownerType.v, owner.v, projectNumber.v, fieldID.v)
    IN  IF owner.err THEN { Returned(ToolResultError("owner", ""), 0) }
        ELSE IF ownerType.err THEN { Returned(ToolResultError("owner_type", ""), 0) }
        ELSE IF projectNumber.err THEN { Returned(ToolResultError("project_number", ""), 0) }
        ELSE IF fieldID.err THEN { Returned(ToolResultError("field_id", ""), 0) }
        ELSE IF ~ clientOk THEN { Returned(ToolResultError("getClient", ""), 1) }
        ELSE IF NewRequestFails(url)
        THEN { Returned(FatalError("failed to create request"), 1) }
        ELSE { Issued(Request("GET", url, NoBody)) }

getProjectFieldFinish(r) ==
    IF r.err
    THEN Finished(GitHubAPIErrorResponse("failed to get project field"), FALSE)
    ELSE IF r.StatusCode # StatusOK
    THEN IF r.ReadErr
         THEN Finished(FatalError("failed to read response body"), TRUE)
         ELSE Finished(ToolResultError("failed to get project field", r.Body), TRUE)
    ELSE Finished(ToolResultText([field |-> r.v]), TRUE)

\* The loop of ListProjectItems over the decoded items.
filterItemFields(item) ==
    IF Len(item.Fields) > 0
    THEN [item EXCEPT !.Fields = filterSpecialTypes(item.Fields)]
    ELSE item

listProjectItemsStart(a, clientOk) ==
    LET owner == RequiredParam(a, "owner")
        ownerType == RequiredParam(a, "owner_type")
        projectNumber == RequiredInt(a, "project_number")
        queryStr == OptionalParam(a, "query")
        fs == OptionalStringArrayParam(a, "fields")
        pagination == extractPaginationOptions(a)
        url == listProjectItemsURL(ownerType.v, owner.v, projectNumber.v)
        opts == listProjectItemsOptions(pagination.opts,
                                        filterQueryOptions(queryStr.v),
                                        fieldSelectionOptions(Join(fs.v, << "," >>)))
    IN  IF owner.err THEN { Returned(ToolResultError("owner", ""), 0) }
        ELSE IF ownerType.err THEN { Returned(ToolResultError("owner_type", ""), 0) }
        ELSE IF projectNumber.err THEN { Returned(ToolResultError("project_number", ""), 0) }
        ELSE IF queryStr.err THEN { Returned(ToolResultError("query", ""), 0) }
        ELSE IF fs.err THEN { Returned(ToolResultError("fields", ""), 0) }
        ELSE IF pagination.err THEN { Returned(ToolResultError("pagination", ""), 0) }
        ELSE IF ~ clientOk THEN { Returned(ToolResultError("getClient", ""), 1) }
        ELSE { IF w.err THEN Returned(FatalError("failed to add options to request"), 1)
               ELSE IF NewRequestFails(w.url)
               THEN Returned(FatalError("failed to create request"), 1)
               ELSE Issued(Request("GET", w.url, NoBody)) :
               w \in addOptions(url, opts) }

listProjectItemsFinish(r) ==
    IF r.err THEN Finished(GitHubAPIErrorResponse(ProjectListFailedError), FALSE)
    ELSE Finished(ToolResultText([items |-> [i \in DOMAIN r.v |-> filterItemFields(r.v[i])],
                                  pageInfo |-> marshalPageInfo(buildPageInfo(r))]),
                  TRUE)

getProjectItemStart(a, clientOk) ==
    LET owner == RequiredParam(a, "owner")
        ownerType == RequiredParam(a, "owner_type")
        projectNumber == RequiredInt(a, "project_number")
        itemID == RequiredInt(a, "item_id")
        fs == OptionalStringArrayParam(a, "fields")
        url == getProjectItemURL(ownerType.v, owner.v, projectNumber.v, itemID.v)
        opts == IF Len(fs.v) > 0
                THEN fieldSelectionOptions(Join(fs.v, << "," >>))
                ELSE fieldSelectionOptions(EmptyString)
    IN  IF owner.err THEN { Returned(ToolResultError("owner", ""), 0) }
        ELSE IF ownerType.err THEN { Returned(ToolResultError("owner_type", ""), 0) }
        ELSE IF projectNumber.err THEN { Returned(ToolResultError("project_number", ""), 0) }
        ELSE IF itemID.err THEN { Returned(ToolResultError("item_id", ""), 0) }
        ELSE IF fs.err THEN { Returned(ToolResultError("fields", ""), 0) }
        ELSE IF ~ clientOk THEN { Returned(ToolResultError("getClient", ""), 1) }
        ELSE { IF w.err THEN Returned(ToolResultError("addOptions", ""), 1)
               ELSE IF NewRequestFails(w.url)
               THEN Returned(FatalError("failed to create request"), 1)
               ELSE Issued(Request("GET", w.url, NoBody)) :
               w \in addOptions(url, opts) }

getProjectItemFinish(r) ==
    IF r.err
    THEN Finished(GitHubAPIErrorResponse("failed to get project item"), FALSE)
    ELSE Finished(ToolResultText([item |-> filterItemFields(r.v)]), TRUE)

\* AddProjectItem without the test of item_type.
addProjectItemStartUnchecked(a, clientOk) ==
    LET owner == RequiredParam(a, "owner")
        ownerType == RequiredParam(a, "owner_type")
        projectNumber == RequiredInt(a, "project_number")
        itemID == RequiredInt(a, "item_id")
        itemType == RequiredParam(a, "item_type")
        url == addProjectItemURL(ownerType.v, owner.v, projectNumber.v)
        newItem == newProjectItem(itemID.v, toNewProjectType(itemType.v))
    IN  IF owner.err THEN { Returned(ToolResultError("owner", ""), 0) }
        ELSE IF ownerType.err THEN { Returned(ToolResultError("owner_type", ""), 0) }
        ELSE IF projectNumber.err THEN { Returned(ToolResultError("project_number", ""), 0) }
        ELSE IF itemID.err THEN { Returned(ToolResultError("item_id", ""), 0) }
        ELSE IF itemType.err THEN { Returned(ToolResultError("item_type", ""), 0) }
        ELSE IF ~ clientOk THEN { Returned(ToolResultError("getClient", ""), 1) }
        ELSE IF NewRequestFails(url)
        THEN { Returned(FatalError("failed to create request"), 1) }
        ELSE { Issued(Request("POST", url, newItem)) }

addProjectItemStart(a, clientOk) ==
    LET owner == RequiredParam(a, "owner")
        ownerType == RequiredParam(a, "owner_type")
        projectNumber == RequiredInt(a, "project_number")
        itemID == RequiredInt(a, "item_id")
        itemType == RequiredParam(a, "item_type")
        url == addProjectItemURL(ownerType.v, owner.v, projectNumber.v)
        newItem == newProjectItem(itemID.v, toNewProjectType(itemType.v))
    IN  IF owner.err THEN { Returned(ToolResultError("owner", ""), 0) }
        ELSE IF ownerType.err THEN { Returned(ToolResultError("owner_type", ""), 0) }
        ELSE IF projectNumber.err THEN { Returned(ToolResultError("project_number", ""), 0) }
        ELSE IF itemID.err THEN { Returned(ToolResultError("item_id", ""), 0) }
        ELSE IF itemType.err THEN { Returned(ToolResultError("item_type", ""), 0) }
        ELSE IF itemType.v # strIssue /\ itemType.v # strPullRequest
        THEN { Returned(ToolResultError(
                   "item_type must be either 'issue' or 'pull_request'", ""), 0) }
        ELSE IF ~ clientOk THEN { Returned(ToolResultError("getClient", ""), 1) }
        ELSE IF NewRequestFails(url)
        THEN { Returned(FatalError("failed to create request"), 1) }
        ELSE { Issued(Request("POST", url, newItem)) }

addProjectItemFinish(r) ==
    IF r.err THEN Finished(GitHubAPIErrorResponse(ProjectAddFailedError), FALSE)
    ELSE IF r.StatusCode # StatusCreated
    THEN IF r.ReadErr
         THEN Finished(FatalError("failed to read response body"), TRUE)
         ELSE Finished(ToolResultError(ProjectAddFailedError, r.Body), TRUE)
    ELSE Finished(ToolResultText([item |-> r.v]), TRUE)

\* UpdateProjectItem obtaining the client before it validates updated_field.
updateProjectItemStartClientFirst(a, clientOk) ==
    LET owner == RequiredParam(a, "owner")
        ownerType == RequiredParam(a, "owner_type")
        projectNumber == RequiredInt(a, "project_number")
        itemID == RequiredInt(a, "item_id")
        rawUpdatedField == a["updated_field"]
        updatePayload == buildUpdateProjectItem(rawUpdatedField)
        url == updateProjectItemURL(ownerType.v, owner.v, projectNumber.v, itemID.v)
    IN  IF owner.err THEN { Returned(ToolResultError("owner", ""), 0) }
        ELSE IF ownerType.err THEN { Returned(ToolResultError("owner_type", ""), 0) }
        ELSE IF projectNumber.err THEN { Returned(ToolResultError("project_number", ""), 0) }
        ELSE IF itemID.err THEN { Returned(ToolResultError("item_id", ""), 0) }
        ELSE IF rawUpdatedField.t = "absent"
        THEN { Returned(ToolResultError("missing required parameter: updated_field", ""), 0) }
        ELSE IF rawUpdatedField.t # "object"
        THEN { Returned(ToolResultError("field_value must be an object", ""), 0) }
        ELSE IF ~ clientOk THEN { Returned(ToolResultError("getClient", ""), 1) }
        ELSE IF updatePayload.err # NoError
        THEN { Returned(ToolResultError(updatePayload.err, ""), 1) }
        ELSE IF NewRequestFails(url)
        THEN { Returned(FatalError("failed to create request"), 1) }
        ELSE { Issued(Request("PATCH", url,
                              updateProjectItemPayload(<< updatePayload.payload >>))) }

\* UpdateProjectItem appending the payload to a list that already holds a zero
\* element.
updateProjectItemStartZeroFirst(a, clientOk) ==
    LET owner == RequiredParam(a, "owner")
        ownerType == RequiredParam(a, "owner_type")
        projectNumber == RequiredInt(a, "project_number")
        itemID == RequiredInt(a, "item_id")
        rawUpdatedField == a["updated_field"]
        updatePayload == buildUpdateProjectItem(rawUpdatedField)
        url == updateProjectItemURL(ownerType.v, owner.v, projectNumber.v, itemID.v)
    IN  IF owner.err THEN { Returned(ToolResultError("owner", ""), 0) }
        ELSE IF ownerType.err THEN { Returned(ToolResultError("owner_type", ""), 0) }
        ELSE IF projectNumber.err THEN { Returned(ToolResultError("project_number", ""), 0) }
        ELSE IF itemID.err THEN { Returned(ToolResultError("item_id", ""), 0) }
        ELSE IF rawUpdatedField.t = "absent"
        THEN { Returned(ToolResultError("missing required parameter: updated_field", ""), 0) }
        ELSE IF rawUpdatedField.t # "object"
        THEN { Returned(ToolResultError("field_value must be an object", ""), 0) }
        ELSE IF updatePayload.err # NoError
        THEN { Returned(ToolResultError(updatePayload.err, ""), 0) }
        ELSE IF ~ clientOk THEN { Returned(ToolResultError("getClient", ""), 1) }
        ELSE IF NewRequestFails(url)
        THEN { Returned(FatalError("failed to create request"), 1) }
        ELSE { Issued(Request("PATCH", url,
                              updateProjectItemPayload(
                                  << updateProjectItem(0, Null), updatePayload.payload >>))) }

updateProjectItemStart(a, clientOk) ==
    LET owner == RequiredParam(a, "owner")
        ownerType == RequiredParam(a, "owner_type")
        projectNumber == RequiredInt(a, "project_number")
        itemID == RequiredInt(a, "item_id")
        rawUpdatedField == a["updated_field"]
        updatePayload == buildUpdateProjectItem(rawUpdatedField)
        url == updateProjectItemURL(ownerType.v, owner.v, projectNumber.v, itemID.v)
    IN  IF owner.err THEN { Returned(ToolResultError("owner", ""), 0) }
        ELSE IF ownerType.err THEN { Returned(ToolResultError("owner_type", ""), 0) }
        ELSE IF projectNumber.err THEN { Returned(ToolResultError("project_number", ""), 0) }
        ELSE IF itemID.err THEN { Returned(ToolResultError("item_id", ""), 0) }
        ELSE IF rawUpdatedField.t = "absent"
        THEN { Returned(ToolResultError("missing required parameter: updated_field", ""), 0) }
        ELSE IF rawUpdatedField.t # "object"
        THEN { Returned(ToolResultError("field_value must be an object", ""), 0) }
        ELSE IF updatePayload.err # NoError
        THEN { Returned(ToolResultError(updatePayload.err, ""), 0) }
        ELSE IF ~ clientOk THEN { Returned(ToolResultError("getClient", ""), 1) }
        ELSE IF NewRequestFails(url)
        THEN { Returned(FatalError("failed to create request"), 1) }
        ELSE { Issued(Request("PATCH", url,
                              updateProjectItemPayload(<< updatePayload.payload >>))) }

\* UpdateProjectItem without the test of the status.
updateProjectItemFinishNoStatusCheck(r) ==
    IF r.err THEN Finished(GitHubAPIErrorResponse(ProjectUpdateFailedError), FALSE)
    ELSE Finished(ToolResultText([item |-> r.v]), TRUE)

updateProjectItemFinish(r) ==
    IF r.err THEN Finished(GitHubAPIErrorResponse(ProjectUpdateFailedError), FALSE)
    ELSE IF r.StatusCode # StatusOK
    THEN IF r.ReadErr
         THEN Finished(FatalError("failed to read response body"), TRUE)
         ELSE Finished(ToolResultError(ProjectUpdateFailedError, r.Body), TRUE)
    ELSE Finished(ToolResultText([item |-> r.v]), TRUE)

deleteProjectItemStart(a, clientOk) ==
    LET owner == RequiredParam(a, "owner")
        ownerType == RequiredParam(a, "owner_type")
        projectNumber == RequiredInt(a, "project_number")
        itemID == RequiredInt(a, "item_id")
        url == deleteProjectItemURL(ownerType.v, owner.v, projectNumber.v, itemID.v)
    IN  IF owner.err THEN { Returned(ToolResultError("owner", ""), 0) }
        ELSE IF ownerType.err THEN { Returned(ToolResultError("owner_type", ""), 0) }
        ELSE IF projectNumber.err THEN { Returned(ToolResultError("project_number", ""), 0) }
        ELSE IF itemID.err THEN { Returned(ToolResultError("item_id", ""), 0) }
        ELSE IF ~ clientOk THEN { Returned(ToolResultError("getClient", ""), 1) }
        ELSE IF NewRequestFails(url)
        THEN { Returned(FatalError("failed to create request"), 1) }
        ELSE { Issued(Request("DELETE", url, NoBody)) }

deleteProjectItemFinish(r) ==
    IF r.err THEN Finished(GitHubAPIErrorResponse(ProjectDeleteFailedError), FALSE)
    ELSE IF r.StatusCode # StatusNoContent
    THEN IF r.ReadErr
         THEN Finished(FatalError("failed to read response body"), TRUE)
         ELSE Finished(ToolResultError(ProjectDeleteFailedError, r.Body), TRUE)
    ELSE Finished(ToolResultText([deleted |-> TRUE]), TRUE)

(***************************************************************************)
(* The arguments a caller may pass and the answers the transport may give. *)
(***************************************************************************)
goodOwner == << "o" >>
badOwner == << "%", "z" >>
cursorValue == << "c", "=" >>
queryValue1 == << "a", " " >>

OwnerArgs == { Str(goodOwner), Str(badOwner), Absent }
OwnerTypeArgs == { Str(strOrg), Str(strUser), Str(strTeam), Absent }
ProjectNumberArgs == { Num(7), Str(plainValue) }
ItemIDArgs == { Num(5), Absent }
FieldIDArgs == { Num(3), Absent }
ItemTypeArgs ==
    { Str(strIssue), Str(strPullRequest), Str(strIssueType), Str(strDraft), Absent }
PerPageArgs ==
    { Absent, Str(plainValue), Num(0 - 1), Num(0), Num(30),
      Num(MaxProjectsPerPage), Num(MaxProjectsPerPage + 1), Num(200) }
ItemsPerPageArgs ==
    { Absent, Str(plainValue), Num(30), Num(MaxProjectsPerPage + 1) }
CursorArgs == { Absent, Str(cursorValue) }
QueryArgs == { Absent, Str(queryValue1) }
FieldsArgs == { Absent, Arr(<< Str(<< "1" >>), Str(<< "2" >>) >>), Arr(<< Num(1) >>) }
UpdatedFieldArgs ==
    { Absent, Null, Str(plainValue),
      Obj([k \in {} |-> Null]),
      Obj([k \in { "id" } |-> Num(9)]),
      Obj([k \in { "value" } |-> Str(plainValue)]),
      Obj([k \in { "id", "value" } |-> IF k = "id" THEN Num(9) ELSE Str(plainValue)]),
      Obj([k \in { "id", "value" } |-> IF k = "id" THEN Num(9) ELSE Null]),
      Obj([k \in { "id", "value" } |-> IF k = "id" THEN Str(plainValue) ELSE Num(1)]),
      Obj([k \in { "id", "value" } |-> IF k = "id" THEN NumAndHalf(9) ELSE Num(1)]) }

ListProjectsArgs ==
    { [NoArgs EXCEPT !["owner"] = o, !["owner_type"] = ot, !["query"] = qs,
                     !["per_page"] = pp, !["after"] = af, !["before"] = be] :
        o \in OwnerArgs, ot \in OwnerTypeArgs, qs \in QueryArgs,
        pp \in PerPageArgs, af \in CursorArgs, be \in CursorArgs }
GetProjectArgs ==
    { [NoArgs EXCEPT !["owner"] = o, !["owner_type"] = ot, !["project_number"] = n] :
        o \in OwnerArgs, ot \in OwnerTypeArgs, n \in ProjectNumberArgs }
ListProjectFieldsArgs ==
    { [NoArgs EXCEPT !["owner"] = o, !["owner_type"] = ot, !["project_number"] = n,
                     !["per_page"] = pp, !["after"] = af, !["before"] = be] :
        o \in OwnerArgs, ot \in OwnerTypeArgs, n \in ProjectNumberArgs,
        pp \in PerPageArgs, af \in CursorArgs, be \in CursorArgs }
GetProjectFieldArgs ==
    { [NoArgs EXCEPT !["owner"] = o, !["owner_type"] = ot, !["project_number"] = n,
                     !["field_id"] = f] :
        o \in OwnerArgs, ot \in OwnerTypeArgs, n \in ProjectNumberArgs,
        f \in FieldIDArgs }
ListProjectItemsArgs ==
    { [NoArgs EXCEPT !["owner"] = o, !["owner_type"] = ot, !["project_number"] = n,
                     !["query"] = qs, !["fields"] = fs,
                     !["per_page"] = pp, !["after"] = af, !["before"] = be] :
        o \in OwnerArgs, ot \in OwnerTypeArgs, n \in ProjectNumberArgs,
        qs \in QueryArgs, fs \in FieldsArgs,
        pp \in ItemsPerPageArgs, af \in CursorArgs, be \in CursorArgs }
GetProjectItemArgs ==
    { [NoArgs EXCEPT !["owner"] = o, !["owner_type"] = ot, !["project_number"] = n,
                     !["item_id"] = i, !["fields"] = fs] :
        o \in OwnerArgs, ot \in OwnerTypeArgs, n \in ProjectNumberArgs,
        i \in ItemIDArgs, fs \in FieldsArgs }
AddProjectItemArgs ==
    { [NoArgs EXCEPT !["owner"] = o, !["owner_type"] = ot, !["project_number"] = n,
                     !["item_id"] = i, !["item_type"] = it] :
        o \in OwnerArgs, ot \in OwnerTypeArgs, n \in ProjectNumberArgs,
        i \in ItemIDArgs, it \in ItemTypeArgs }
UpdateProjectItemArgs ==
    { [NoArgs EXCEPT !["owner"] = o, !["owner_type"] = ot, !["project_number"] = n,
                     !["item_id"] = i, !["updated_field"] = uf] :
        o \in OwnerArgs, ot \in OwnerTypeArgs, n \in ProjectNumberArgs,
        i \in ItemIDArgs, uf \in UpdatedFieldArgs }
DeleteProjectItemArgs ==
    { [NoArgs EXCEPT !["owner"] = o, !["owner_type"] = ot, !["project_number"] = n,
                     !["item_id"] = i] :
        o \in OwnerArgs, ot \in OwnerTypeArgs, n \in ProjectNumberArgs,
        i \in ItemIDArgs }

\* The data types a decoded record may declare.
DecodedTypes == { Labels, text }

projectV2Item(id, fs) == [ID |-> id, Fields |-> fs]

FieldLists ==
    { [i \in DOMAIN dts |-> projectV2Field(i, dts[i])] :
        dts \in SeqUpTo(DecodedTypes, MaxFields) }
ValueLists ==
    { [i \in DOMAIN dts |-> projectV2ItemFieldValue(i, dts[i])] :
        dts \in SeqUpTo(DecodedTypes, MaxFields) }
ItemLists ==
    { [i \in DOMAIN fss |-> projectV2Item(i, fss[i])] :
        fss \in SeqUpTo(ValueLists, MaxItems) }
ProjectLists == { [i \in 1..k |-> [ID |-> i]] : k \in 0..MaxItems }

ListOps == { "list_projects", "list_project_fields", "list_project_items" }
StatusCheckedOps ==
    { "get_project", "get_project_field", "add_project_item",
      "update_project_item", "delete_project_item" }

\* The value client.Do decodes a successful response into.
Decoded(o) ==
    CASE o = "list_projects" -> ProjectLists
      [] o = "get_project" -> { [ID |-> 1] }
      [] o = "list_project_fields" -> FieldLists
      [] o = "get_project_field" -> { projectV2Field(1, dt) : dt \in DecodedTypes }
      [] o = "list_project_items" -> ItemLists
      [] o = "delete_project_item" -> { << >> }
      [] OTHER -> { projectV2Item(1, fs) : fs \in ValueLists }

\* The value left in the variable when client.Do returns an error.
ZeroValue(o) ==
    CASE o \in ListOps -> << >>
      [] o = "get_project" -> [ID |-> 0]
      [] o = "get_project_field" -> projectV2Field(0, EmptyString)
      [] o = "delete_project_item" -> << >>
      [] OTHER -> projectV2Item(0, << >>)

Statuses(o) ==
    IF o \in StatusCheckedOps
    THEN { StatusOK, StatusCreated, StatusNoContent, 404 }
    ELSE { StatusOK, 404 }
Bodies(o) == IF o \in StatusCheckedOps THEN { "body 1", "body 2" } ELSE { "body 1" }
ResponseCursors == { EmptyString, cursorValue }
\* Whether io.ReadAll(resp.Body) fails; only the handlers that test the status
\* read the body.
ReadErrs(o) == IF o \in StatusCheckedOps THEN BOOLEAN ELSE { FALSE }

\* What client.Do (or a client.Projects method) may return: an error, with or
\* without a response, or a response of any status with the decoded value.
Responses(o) ==
    { [err |-> TRUE, isNil |-> n, StatusCode |-> IF n THEN 0 ELSE 500,
       Body |-> IF n THEN "" ELSE "body 1", ReadErr |-> FALSE,
       After |-> EmptyString, Before |-> EmptyString, v |-> ZeroValue(o)] :
      n \in BOOLEAN }
    \cup
    { [err |-> FALSE, isNil |-> FALSE, StatusCode |-> s, Body |-> b, ReadErr |-> e,
       After |-> af, Before |-> be, v |-> v] :
      s \in Statuses(o), b \in Bodies(o), e \in ReadErrs(o), af \in ResponseCursors,
      be \in ResponseCursors, v \in Decoded(o) }

(***************************************************************************)
(* The actions.                                                            *)
(***************************************************************************)
Init ==
    /\ HandlersIdle
    /\ call = NoCall

\* A handler is invoked with arguments a and runs up to its transport call.
Start(o, a, outcome) ==
    /\ pc = "idle"
    /\ op' = o
    /\ args' = a
    /\ client' = outcome.client
    /\ sent' = outcome.sent
    /\ resp' = NoResp
    /\ closed' = FALSE
    /\ IF outcome.sent = << >>
       THEN pc' = "done" /\ result' = outcome.ret
       ELSE pc' = "waiting" /\ result' = NoResult
    /\ UNCHANGED call

\* A handler that sends its request once more when the transport call fails.
FinishRetrying(o, r, fin) ==
    /\ pc = "waiting"
    /\ op = o
    /\ resp' = r
    /\ closed' = fin.closed
    /\ result' = fin.ret
    /\ pc' = "done"
    /\ sent' = IF r.err THEN sent \o sent ELSE sent
    /\ UNCHANGED << op, args, client, call >>

\* The transport call returns r and the handler runs to its return.
Finish(o, r, fin) ==
    /\ pc = "waiting"
    /\ op = o
    /\ resp' = r
    /\ closed' = fin.closed
    /\ result' = fin.ret
    /\ pc' = "done"
    /\ UNCHANGED << op, args, client, sent, call >>

ListProjects ==
    /\ pc = "idle"
    /\ \E a \in ListProjectsArgs, ok \in BOOLEAN :
        \E out \in listProjectsStart(a, ok) : Start("list_projects", a, out)
ListProjectsResponse ==
    /\ pc = "waiting"
    /\ op = "list_projects"
    /\ \E r \in Responses("list_projects") :
        Finish("list_projects", r, listProjectsFinish(r))

GetProject ==
    /\ pc = "idle"
    /\ \E a \in GetProjectArgs, ok \in BOOLEAN :
        \E out \in getProjectStart(a, ok) : Start("get_project", a, out)
GetProjectResponse ==
    /\ pc = "waiting"
    /\ op = "get_project"
    /\ \E r \in Responses("get_project") :
        Finish("get_project", r, getProjectFinish(r))

ListProjectFields ==
    /\ pc = "idle"
    /\ \E a \in ListProjectFieldsArgs, ok \in BOOLEAN :
        \E out \in listProjectFieldsStart(a, ok) : Start("list_project_fields", a, out)
ListProjectFieldsResponse ==
    /\ pc = "waiting"
    /\ op = "list_project_fields"
    /\ \E r \in Responses("list_project_fields") :
        Finish("list_project_fields", r, listProjectFieldsFinish(r))

GetProjectField ==
    /\ pc = "idle"
    /\ \E a \in GetProjectFieldArgs, ok \in BOOLEAN :
        \E out \in getProjectFieldStart(a, ok) : Start("get_project_field", a, out)
GetProjectFieldResponse ==
    /\ pc = "waiting"
    /\ op = "get_project_field"
    /\ \E r \in Responses("get_project_field") :
        Finish("get_project_field", r, getProjectFieldFinish(r))

ListProjectItems ==
    /\ pc = "idle"
    /\ \E a \in ListProjectItemsArgs, ok \in BOOLEAN :
        \E out \in listProjectItemsStart(a, ok) : Start("list_project_items", a, out)
ListProjectItemsResponse ==
    /\ pc = "waiting"
    /\ op = "list_project_items"
    /\ \E r \in Responses("list_project_items") :
        Finish("list_project_items", r, listProjectItemsFinish(r))

GetProjectItem ==
    /\ pc = "idle"
    /\ \E a \in GetProjectItemArgs, ok \in BOOLEAN :
        \E out \in getProjectItemStart(a, ok) : Start("get_project_item", a, out)
GetProjectItemResponse ==
    /\ pc = "waiting"
    /\ op = "get_project_item"
    /\ \E r \in Responses("get_project_item") :
        Finish("get_project_item", r, getProjectItemFinish(r))

AddProjectItem ==
    /\ pc = "idle"
    /\ \E a \in AddProjectItemArgs, ok \in BOOLEAN :
        \E out \in addProjectItemStart(a, ok) : Start("add_project_item", a, out)
AddProjectItemResponse ==
    /\ pc = "waiting"
    /\ op = "add_project_item"
    /\ \E r \in Responses("add_project_item") :
        Finish("add_project_item", r, addProjectItemFinish(r))

UpdateProjectItem ==
    /\ pc = "idle"
    /\ \E a \in UpdateProjectItemArgs, ok \in BOOLEAN :
        \E out \in updateProjectItemStart(a, ok) : Start("update_project_item", a, out)
UpdateProjectItemResponse ==
    /\ pc = "waiting"
    /\ op = "update_project_item"
    /\ \E r \in Responses("update_project_item") :
        Finish("update_project_item", r, updateProjectItemFinish(r))

DeleteProjectItem ==
    /\ pc = "idle"
    /\ \E a \in DeleteProjectItemArgs, ok \in BOOLEAN :
        \E out \in deleteProjectItemStart(a, ok) : Start("delete_project_item", a, out)
DeleteProjectItemResponse ==
    /\ pc = "waiting"
    /\ op = "delete_project_item"
    /\ \E r \in Responses("delete_project_item") :
        Finish("delete_project_item", r, deleteProjectItemFinish(r))

\* The caller has the result; the next invocation starts from nothing.
Return ==
    /\ pc = "done"
    /\ pc' = "idle"
    /\ op' = "none"
    /\ args' = NoArgs
    /\ client' = 0
    /\ sent' = << >>
    /\ resp' = NoResp
    /\ closed' = FALSE
    /\ result' = NoResult
    /\ UNCHANGED call

Next ==
    \/ ListProjects \/ ListProjectsResponse
    \/ GetProject \/ GetProjectResponse
    \/ ListProjectFields \/ ListProjectFieldsResponse
    \/ GetProjectField \/ GetProjectFieldResponse
    \/ ListProjectItems \/ ListProjectItemsResponse
    \/ GetProjectItem \/ GetProjectItemResponse
    \/ AddProjectItem \/ AddProjectItemResponse
    \/ UpdateProjectItem \/ UpdateProjectItemResponse
    \/ DeleteProjectItem \/ DeleteProjectItemResponse
    \/ Return

Spec == Init /\ [][Next]_vars

(***************************************************************************)
(* Concurrent invocations. The server runs each tool call in a goroutine   *)
(* of its own; the only package-level variable the handlers touch is       *)
(* specialFieldDataTypes. call.special is that variable and call.inv holds *)
(* the invocations in progress.                                            *)
(***************************************************************************)
Invocations == { "first", "second" }
Operations ==
    { "list_projects", "get_project", "list_project_fields", "get_project_field",
      "list_project_items", "get_project_item", "add_project_item",
      "update_project_item", "delete_project_item" }

startOf(o, a, clientOk) ==
    CASE o = "list_projects" -> listProjectsStart(a, clientOk)
      [] o = "get_project" -> getProjectStart(a, clientOk)
      [] o = "list_project_fields" -> listProjectFieldsStart(a, clientOk)
      [] o = "get_project_field" -> getProjectFieldStart(a, clientOk)
      [] o = "list_project_items" -> listProjectItemsStart(a, clientOk)
      [] o = "get_project_item" -> getProjectItemStart(a, clientOk)
      [] o = "add_project_item" -> addProjectItemStart(a, clientOk)
      [] o = "update_project_item" -> updateProjectItemStart(a, clientOk)
      [] OTHER -> deleteProjectItemStart(a, clientOk)

finishOf(o, r) ==
    CASE o = "list_projects" -> listProjectsFinish(r)
      [] o = "get_project" -> getProjectFinish(r)
      [] o = "list_project_fields" -> listProjectFieldsFinish(r)
      [] o = "get_project_field" -> getProjectFieldFinish(r)
      [] o = "list_project_items" -> listProjectItemsFinish(r)
      [] o = "get_project_item" -> getProjectItemFinish(r)
      [] o = "add_project_item" -> addProjectItemFinish(r)
      [] o = "update_project_item" -> updateProjectItemFinish(r)
      [] OTHER -> deleteProjectItemFinish(r)

\* filterSpecialTypes reading the package variable as it is when it runs.
RECURSIVE filterLoopReading(_, _, _, _)
filterLoopReading(special, fields, i, out) ==
    IF i > Len(fields) THEN out
    ELSE IF getDataType(fields[i]) \in special
         THEN filterLoopReading(special, fields, i + 1, out)
         ELSE filterLoopReading(special, fields, i + 1, Append(out, fields[i]))
filterSpecialTypesReading(special, fields) ==
    IF Len(fields) = 0 THEN fields ELSE filterLoopReading(special, fields, 1, << >>)
filterItemFieldsReading(special, item) ==
    IF Len(item.Fields) > 0
    THEN [item EXCEPT !.Fields = filterSpecialTypesReading(special, item.Fields)]
    ELSE item

\* What the second part of a handler returns when the package variable holds
\* special: the three handlers that filter read it.
finishReading(special, o, r) ==
    IF r.err THEN finishOf(o, r).ret
    ELSE CASE o = "list_project_fields" ->
                ToolResultText([fields |-> filterSpecialTypesReading(special, r.v),
                                pageInfo |-> marshalPageInfo(buildPageInfo(r))])
           [] o = "list_project_items" ->
                ToolResultText([items |-> [i \in DOMAIN r.v |->
                                             filterItemFieldsReading(special, r.v[i])],
                                pageInfo |-> marshalPageInfo(buildPageInfo(r))])
           [] o = "get_project_item" ->
                ToolResultText([item |-> filterItemFieldsReading(special, r.v)])
           [] OTHER -> finishOf(o, r).ret

\* A handler that records the data types it has met in the package variable.
specialFieldDataTypesAfterRecording(special, o, r) ==
    IF o = "list_project_fields" /\ ~ r.err
    THEN special \cup { getDataType(r.v[i]) : i \in DOMAIN r.v }
    ELSE special

\* The package variable after a handler has run: no handler or helper writes it.
specialFieldDataTypesAfter(special, o, r) == special

IdleInvocation ==
    [pc |-> "idle", op |-> "none", args |-> NoArgs, client |-> 0, sent |-> << >>,
     resp |-> NoResp, result |-> NoResult]

\* Arguments every operation accepts, and the same without the owner.
AcceptedArgs ==
    [NoArgs EXCEPT !["owner"] = Str(goodOwner), !["owner_type"] = Str(strOrg),
                   !["project_number"] = Num(7), !["item_id"] = Num(5),
                   !["field_id"] = Num(3), !["item_type"] = Str(strIssue),
                   !["updated_field"] =
                       Obj([k \in { "id", "value" } |-> IF k = "id" THEN Num(9) ELSE Null])]
ConcurrentArgs == { AcceptedArgs, [AcceptedArgs EXCEPT !["owner"] = Absent] }

\* The answers to concurrent invocations: an error without a response, or a
\* 200 carrying records of two data types each.
ConcurrentDecoded(o) ==
    CASE o = "list_project_fields" ->
           { << projectV2Field(1, d1), projectV2Field(2, d2) >> :
               d1 \in DecodedTypes, d2 \in DecodedTypes }
      [] o = "list_project_items" ->
           { << projectV2Item(1, << projectV2ItemFieldValue(1, d1),
                                    projectV2ItemFieldValue(2, d2) >>) >> :
               d1 \in DecodedTypes, d2 \in DecodedTypes }
      [] o \in { "get_project_item", "add_project_item", "update_project_item" } ->
           { projectV2Item(1, << projectV2ItemFieldValue(1, d1),
                                 projectV2ItemFieldValue(2, d2) >>) :
               d1 \in DecodedTypes, d2 \in DecodedTypes }
      [] OTHER -> { ZeroValue(o) }
ConcurrentResponses(o) ==
    { [err |-> TRUE, isNil |-> TRUE, StatusCode |-> 0, Body |-> "", ReadErr |-> FALSE,
       After |-> EmptyString, Before |-> EmptyString, v |-> ZeroValue(o)] }
    \cup
    { [err |-> FALSE, isNil |-> FALSE, StatusCode |-> StatusOK, Body |-> "body 1",
       ReadErr |-> FALSE, After |-> cursorValue, Before |-> EmptyString, v |-> v] :
      v \in ConcurrentDecoded(o) }

InitConcurrent ==
    /\ HandlersIdle
    /\ call = [fn |-> "invocations", special |-> specialFieldDataTypes,
               inv |-> [i \in Invocations |-> IdleInvocation]]

\* Invocation i starts and runs up to its transport call.
Invoke(i) ==
    /\ call.fn = "invocations"
    /\ call.inv[i].pc = "idle"
    /\ \E o \in Operations, a \in ConcurrentArgs, ok \in BOOLEAN :
         \E out \in startOf(o, a, ok) :
            call' = [call EXCEPT !.inv[i] =
                        [pc |-> IF out.sent = << >> THEN "done" ELSE "waiting",
                         op |-> o, args |-> a, client |-> out.client,
                         sent |-> out.sent, resp |-> NoResp, result |-> out.ret]]
    /\ UNCHANGED handlerVars

\* The transport answers invocation i, which runs to its return.
Respond(i) ==
    /\ call.fn = "invocations"
    /\ call.inv[i].pc = "waiting"
    /\ \E r \in ConcurrentResponses(call.inv[i].op) :
         call' = [call EXCEPT
                    !.inv[i].pc = "done",
                    !.inv[i].resp = r,
                    !.inv[i].result = finishReading(call.special, call.inv[i].op, r),
                    !.special = specialFieldDataTypesAfter(call.special, call.inv[i].op, r)]
    /\ UNCHANGED handlerVars

\* The caller of invocation i has its result; another invocation may follow.
Release(i) ==
    /\ call.fn = "invocations"
    /\ call.inv[i].pc = "done"
    /\ call' = [call EXCEPT !.inv[i] = IdleInvocation]
    /\ UNCHANGED handlerVars

NextConcurrent ==
    \E i \in Invocations : Invoke(i) \/ Respond(i) \/ Release(i)

SpecConcurrent == InitConcurrent /\ [][NextConcurrent]_vars

(***************************************************************************)
(* Paging: a list call is answered, and the caller passes a cursor of the  *)
(* pageInfo it received as after or before of its next call.               *)
(***************************************************************************)
PageResponse(o, a, b) ==
    [err |-> FALSE, isNil |-> FALSE, StatusCode |-> StatusOK, Body |-> "body 1",
     ReadErr |-> FALSE, After |-> a, Before |-> b, v |-> ZeroValue(o)]

InitPaging ==
    /\ HandlersIdle
    /\ call \in { [fn |-> "paging", stage |-> 0, op |-> o,
                   resp |-> PageResponse(o, a, b), result |-> NoResult,
                   passed |-> "none", args |-> NoArgs, sent |-> << >>,
                   ret |-> NoResult] :
                  o \in ListOps, a \in Cursors, b \in Cursors }

\* The first call returns its result to the caller.
FirstPageReturned ==
    /\ call.fn = "paging"
    /\ call.stage = 0
    /\ call' = [call EXCEPT !.stage = 1, !.result = finishOf(call.op, call.resp).ret]
    /\ UNCHANGED handlerVars

\* The caller takes key of the pageInfo it has and passes its value as param
\* of the next call, which runs up to its transport call.
passCursor(key, param) ==
    /\ key \in DOMAIN call.result.json.pageInfo
    /\ LET a == [AcceptedArgs EXCEPT ![param] = Str(call.result.json.pageInfo[key])]
       IN  \E out \in startOf(call.op, a, TRUE) :
              call' = [call EXCEPT !.stage = 2, !.passed = param, !.args = a,
                                   !.sent = out.sent, !.ret = out.ret]

NextPageRequested ==
    /\ call.fn = "paging"
    /\ call.stage = 1
    /\ passCursor("nextCursor", "after") \/ passCursor("prevCursor", "before")
    /\ UNCHANGED handlerVars

NextPaging == FirstPageReturned \/ NextPageRequested

SpecPaging == InitPaging /\ [][NextPaging]_vars

(***************************************************************************)
(* filterSpecialTypes with the memory it can reach: the caller's slice and *)
(* the package variable specialFieldDataTypes.                             *)
(***************************************************************************)
\* A filter that builds its result in the input's backing array
\* (out := fields[:0]): the kept records move to the front of the caller's slice.
fieldsAfterFilterInPlace(special, fields) ==
    LET out == filterSpecialTypesReading(special, fields)
    IN  out \o SubSeq(fields, Len(out) + 1, Len(fields))

\* The caller's slice after filterSpecialTypes(fields): out is a fresh slice
\* and the loop only reads fields.
fieldsAfterFilter(special, fields) == fields

\* The package variable after filterSpecialTypes: the loop only looks keys up.
specialAfterFilter(special, fields) == special

\* The records of the purity check: nil, a special type, a spelling of it that
\* differs in case, and an ordinary type.
PureChoices == { 0, 2, 10, 12 }

PureInputs ==
    { [i \in DOMAIN cs |-> recordOf(shape, i, cs[i])] :
        cs \in SeqUpTo(PureChoices, MaxLen),
        shape \in { "field", "value" } }

InitPure ==
    /\ HandlersIdle
    /\ call \in { [fn |-> "pure", stage |-> 0, in |-> s, fields |-> s,
                   special |-> specialFieldDataTypes,
                   out |-> << >>, again |-> << >>] : s \in PureInputs }

\* The memory after one filterSpecialTypes(c.fields): its result in slot, its
\* writes in fields and in the package variable.
afterFilter(c, slot) ==
    [c EXCEPT
       !.stage = c.stage + 1,
       ![slot] = filterSpecialTypesReading(c.special, c.fields),
       !.fields = fieldsAfterFilter(c.special, c.fields),
       !.special = specialAfterFilter(c.special, c.fields)]

\* filtered := filterSpecialTypes(fields)
PureCall ==
    /\ call.fn = "pure"
    /\ call.stage = 0
    /\ call' = afterFilter(call, "out")
    /\ UNCHANGED handlerVars

\* a second filterSpecialTypes(fields) on the same slice
PureAgain ==
    /\ call.fn = "pure"
    /\ call.stage = 1
    /\ call' = afterFilter(call, "again")
    /\ UNCHANGED handlerVars

NextPure == PureCall \/ PureAgain

SpecPure == InitPure /\ [][NextPure]_vars

(***************************************************************************)
(* Properties.                                                             *)
(***************************************************************************)
\* The pieces of s between the occurrences of c (strings.Split).
RECURSIVE splitOn(_, _)
splitOn(s, c) ==
    IF IndexOf(s, c) = 0 THEN << s >>
    ELSE << SubSeq(s, 1, IndexOf(s, c) - 1) >>
            \o splitOn(SubSeq(s, IndexOf(s, c) + 1, Len(s)), c)

\* The query string of a request target: what follows the first "?".
queryOf(url) ==
    IF IndexOf(url, "?") = 0 THEN << >>
    ELSE SubSeq(url, IndexOf(url, "?") + 1, Len(url))

\* The path of a request target: what precedes the first "?".
pathOf(url) ==
    IF IndexOf(url, "?") = 0 THEN url
    ELSE SubSeq(url, 1, IndexOf(url, "?") - 1)

\* The decoded (key, value) pairs of a query string, in the order written.
queryPairs(raw) ==
    IF Len(raw) = 0 THEN << >>
    ELSE LET parts == splitOn(raw, "&")
         IN  [i \in DOMAIN parts |->
                LET e == IndexOf(parts[i], "=")
                IN  IF e = 0 THEN << QueryUnescape(parts[i]), << >> >>
                    ELSE << QueryUnescape(SubSeq(parts[i], 1, e - 1)),
                            QueryUnescape(SubSeq(parts[i], e + 1, Len(parts[i]))) >>]

queryKeys(url) == { p[1] : p \in Range(queryPairs(queryOf(url))) }

\* The value a target carries under a key that it has.
queryValue(url, key) ==
    LET ps == queryPairs(queryOf(url))
    IN  ps[CHOOSE i \in DOMAIN ps : ps[i][1] = key][2]

hasPagination(o) == o.type \in { "paginationOptions", "listProjectItemsOptions" }
hasFilter(o) == o.type \in { "filterQueryOptions", "listProjectItemsOptions" }
hasSelection(o) == o.type \in { "fieldSelectionOptions", "listProjectItemsOptions" }

AddOptionsReturned == call.fn = "addOptions" /\ call.stage >= 1
AddOptionsEncoded ==
    AddOptionsReturned /\ ~ call.out.err /\ call.opts.type # "nilPointer"

\* C2: when every value of an option group handed to addOptions is empty or
\* zero, none of the keys of that group is in the encoded target, whatever the
\* other groups hold.
C2_DefaultGroupsAbsent ==
    AddOptionsEncoded =>
        LET o == call.opts
            keys == queryKeys(call.out.url)
        IN  /\ (hasPagination(o) /\ o.PerPage = 0 /\ o.After = EmptyString
                    /\ o.Before = EmptyString)
                 => keys \cap { keyPerPage, keyAfter, keyBefore } = {}
            /\ (hasFilter(o) /\ o.Query = EmptyString) => keyQ \notin keys
            /\ (hasSelection(o) /\ o.Fields = EmptyString) => keyFields \notin keys

\* A composed value whose pagination group is all default and whose filter is
\* not has been encoded, and the target carries q.
C2_Witness ==
    /\ AddOptionsEncoded
    /\ call.opts.type = "listProjectItemsOptions"
    /\ call.opts.PerPage = 0
    /\ call.opts.After = EmptyString
    /\ call.opts.Before = EmptyString
    /\ call.opts.Query = reservedValue
    /\ keyQ \in queryKeys(call.out.url)

\* The (key, value) pairs the non-default fields of an option value call for.
expectedPairs(o) ==
    (IF hasPagination(o) /\ o.PerPage # 0
       THEN { << keyPerPage, Itoa(o.PerPage) >> } ELSE {})
    \cup (IF hasPagination(o) /\ o.After # EmptyString
            THEN { << keyAfter, o.After >> } ELSE {})
    \cup (IF hasPagination(o) /\ o.Before # EmptyString
            THEN { << keyBefore, o.Before >> } ELSE {})
    \cup (IF hasFilter(o) /\ o.Query # EmptyString
            THEN { << keyQ, o.Query >> } ELSE {})
    \cup (IF hasSelection(o) /\ o.Fields # EmptyString
            THEN { << keyFields, o.Fields >> } ELSE {})

\* C3: the query string addOptions produces holds exactly one key per
\* non-default field and no other: per_page, after, before, q, fields, each
\* with the value of its own field, and no key twice.
C3_ExactlyNonDefaultKeys ==
    AddOptionsEncoded =>
        LET ps == queryPairs(queryOf(call.out.url))
        IN  /\ Range(ps) = expectedPairs(call.opts)
            /\ \A i, j \in DOMAIN ps : ps[i][1] = ps[j][1] => i = j
            /\ pathOf(call.out.url) = call.s

\* A composed value with all five fields set, reserved characters among them,
\* has been encoded into five pairs.
C3_Witness ==
    /\ AddOptionsEncoded
    /\ call.opts.type = "listProjectItemsOptions"
    /\ call.opts.PerPage = 7
    /\ call.opts.After = reservedValue
    /\ call.opts.Before = plainValue
    /\ call.opts.Query = reservedValue
    /\ call.opts.Fields = reservedValue
    /\ Len(queryPairs(queryOf(call.out.url))) = 5

\* C4: two calls of addOptions with the same base path and the same option
\* value return the same target, key order included.
C4_AddOptionsDeterministic ==
    (call.fn = "addOptions" /\ call.stage = 2) => call.again = call.out

\* Both calls have returned a target with more than one key.
C4_Witness ==
    /\ call.fn = "addOptions"
    /\ call.stage = 2
    /\ ~ call.out.err
    /\ call.opts.type = "listProjectItemsOptions"
    /\ Cardinality(queryKeys(call.again.url)) >= 3

\* C5: buildPageInfo sets HasNextPage iff the after-token is non-empty,
\* HasPreviousPage iff the before-token is non-empty, and copies the two
\* tokens into NextCursor and PrevCursor unchanged.
C5_BuildPageInfo ==
    (call.fn = "buildPageInfo" /\ call.stage = 1) =>
        /\ call.out.HasNextPage = (Len(call.resp.After) > 0)
        /\ call.out.HasPreviousPage = (Len(call.resp.Before) > 0)
        /\ call.out.NextCursor = call.resp.After
        /\ call.out.PrevCursor = call.resp.Before

\* buildPageInfo has run on a response with an after-token and no before-token.
C5_Witness ==
    /\ call.fn = "buildPageInfo"
    /\ call.stage = 1
    /\ call.resp.After = << "c", "=" >>
    /\ call.resp.Before = EmptyString
    /\ call.out.HasNextPage
    /\ ~ call.out.HasPreviousPage

\* The special categories, as the specification lists them.
SpecialCategories ==
    { assignees, labels, linked_pull_requests, milestone, parent_issue,
      repository, reviewers, sub_issues_progress, title }

\* The positions of s whose record is to be kept.
keptPositions(s) ==
    { i \in DOMAIN s : s[i].isNil \/ ToLower(s[i].DataType) \notin SpecialCategories }

\* The k-th smallest member of a set of positions.
nthOf(P, k) == CHOOSE i \in P : Cardinality({ j \in P : j < i }) = k - 1

\* The same records in the other shape.
otherShape(s) ==
    [i \in DOMAIN s |->
        [s[i] EXCEPT !.t = IF s[i].t = "field" THEN "value" ELSE "field"]]

FilterReturned == call.fn = "filterSpecialTypes" /\ call.stage >= 1

\* C7: filterSpecialTypes returns the records whose lower-cased data type is
\* not special, all of them and in their original order; which positions are
\* kept depends on the data types alone, the same for field definitions and
\* field values; an empty input gives an empty output.
C7_FilterIsSubsequence ==
    FilterReturned =>
        LET keep == keptPositions(call.in)
        IN  /\ Len(call.out) = Cardinality(keep)
            /\ \A k \in DOMAIN call.out : call.out[k] = call.in[nthOf(keep, k)]
            /\ [k \in DOMAIN call.out |-> call.out[k].ID]
                 = [k \in DOMAIN filterSpecialTypes(otherShape(call.in)) |->
                        filterSpecialTypes(otherShape(call.in))[k].ID]
            /\ Len(call.in) = 0 => Len(call.out) = 0

\* A slice of field values with a special record between two others has been
\* filtered.
C7_Witness ==
    /\ FilterReturned
    /\ Len(call.in) = 3
    /\ call.in[1].t = "value"
    /\ call.in[1].DataType = text
    /\ call.in[2].DataType = sub_issues_progress
    /\ call.in[3].DataType = Text
    /\ Len(call.out) = 2

\* C8: filtering the result of filterSpecialTypes again changes nothing.
C8_FilterIdempotent ==
    (call.fn = "filterSpecialTypes" /\ call.stage = 2) => call.again = call.out

\* A slice that lost a record in the first pass has been filtered twice.
C8_Witness ==
    /\ call.fn = "filterSpecialTypes"
    /\ call.stage = 2
    /\ Len(call.out) < Len(call.in)
    /\ Len(call.out) > 0

\* TRUE iff a and b differ at most in the case of their letters.
SameUpToCase(a, b) ==
    /\ Len(a) = Len(b)
    /\ \A j \in DOMAIN a :
          \/ a[j] = b[j]
          \/ \E n \in DOMAIN UpperCase :
                { a[j], b[j] } = { UpperCase[n], LowerCase[n] }

\* C9: a record whose data type is a special category in any letter case is
\* removed, as the lower-case spelling is, in both record shapes.
C9_CaseInsensitive ==
    FilterReturned =>
        \A i \in DOMAIN call.in :
            (/\ ~ call.in[i].isNil
             /\ \E s \in SpecialCategories : SameUpToCase(call.in[i].DataType, s))
               => \A k \in DOMAIN call.out : call.out[k].ID # i

\* A slice holding "Labels" and "TITLE" has been filtered to nothing.
C9_Witness ==
    /\ FilterReturned
    /\ Len(call.in) = 2
    /\ call.in[1].DataType = Labels
    /\ call.in[2].DataType = TITLE
    /\ call.in[1].t = "field"
    /\ Len(call.out) = 0

(***************************************************************************)
(* Properties of the handlers.                                             *)
(***************************************************************************)
Invoked == pc # "idle"
Sent == sent # << >>
Succeeded == pc = "done" /\ result.kind = "text"

\* The page size the request in flight carries, as the caller of go-github
\* gave it or as the target's per_page value says it.
carriesPerPage(req, n) ==
    IF req.api = "Do"
    THEN /\ keyPerPage \in queryKeys(req.url)
         /\ queryValue(req.url, keyPerPage) = Itoa(n)
    ELSE req.opts.PerPage = n

OversizedPerPage ==
    args["per_page"].t = "number" /\ args["per_page"].v > MaxProjectsPerPage

\* C1: whatever per_page a caller of a list operation supplies, the page size
\* extractPaginationOptions produces is at most MaxProjectsPerPage and is the
\* one the issued request carries; a per_page above 50 is not rejected and the
\* issued request carries exactly per_page=50.
C1_PageSizeClamped ==
    (Invoked /\ op \in ListOps) =>
        LET p == extractPaginationOptions(args)
        IN  /\ ~ p.err => p.opts.PerPage <= MaxProjectsPerPage
            /\ Sent => ~ p.err /\ carriesPerPage(sent[1], p.opts.PerPage)
            /\ OversizedPerPage =>
                 /\ ~ p.err
                 /\ p.opts.PerPage = MaxProjectsPerPage
                 /\ ~ (result.kind = "error" /\ result.text = "pagination")
                 /\ Sent => carriesPerPage(sent[1], MaxProjectsPerPage)

C1_Witness ==
    /\ op = "list_project_items"
    /\ args["per_page"] = Num(MaxProjectsPerPage + 1)
    /\ Succeeded
    /\ carriesPerPage(sent[1], MaxProjectsPerPage)

\* C6: in the pageInfo object of every successful list result the nextCursor
\* key is present exactly when hasNextPage is true and the prevCursor key
\* exactly when hasPreviousPage is true; a response with an empty after-token
\* gives hasNextPage=false and no nextCursor key.
C6_CursorKeysMatchFlags ==
    (Succeeded /\ op \in ListOps) =>
        LET pi == result.json.pageInfo
        IN  /\ { "hasNextPage", "hasPreviousPage" } \subseteq DOMAIN pi
            /\ ("nextCursor" \in DOMAIN pi) <=> pi["hasNextPage"]
            /\ ("prevCursor" \in DOMAIN pi) <=> pi["hasPreviousPage"]
            /\ resp.After = EmptyString =>
                 ~ pi["hasNextPage"] /\ "nextCursor" \notin DOMAIN pi

C6_Witness ==
    /\ Succeeded
    /\ op = "list_project_fields"
    /\ resp.After = EmptyString
    /\ resp.Before # EmptyString
    /\ "nextCursor" \notin DOMAIN result.json.pageInfo
    /\ "prevCursor" \in DOMAIN result.json.pageInfo

isSpecial(rec) == getDataType(rec) \in specialFieldDataTypes
anySpecial(recs) == \E i \in DOMAIN recs : isSpecial(recs[i])

\* The field definitions and item field values a successful result holds.
resultHasSpecial ==
    CASE op = "list_project_fields" -> anySpecial(result.json.fields)
      [] op = "get_project_field" -> isSpecial(result.json.field)
      [] op = "list_project_items" ->
           \E i \in DOMAIN result.json.items : anySpecial(result.json.items[i].Fields)
      [] op \in { "get_project_item", "add_project_item", "update_project_item" } ->
           anySpecial(result.json.item.Fields)
      [] OTHER -> FALSE

\* C10: no result of list fields, get field, list items, get item, add item or
\* update item holds a record whose data type is in the special set.
C10_NoSpecialInResults ==
    Succeeded => ~ resultHasSpecial

(***************************************************************************)
(* Properties of buildUpdateProjectItem.                                   *)
(***************************************************************************)
BuildUpdateReturned == call.fn = "buildUpdateProjectItem" /\ call.stage = 1
hasKey(m, k) == m # NilMap /\ k \in DOMAIN m.v
hasNumericId(m) == hasKey(m, "id") /\ m.v["id"].t = "number"
WellFormedUpdate == hasNumericId(call.input) /\ hasKey(call.input, "value")

\* The whole number a JSON number is cut to: its fraction is dropped.
wholePart(x) == IF x.half /\ x.v < 0 THEN x.v + 1 ELSE x.v

\* C11 as stated: for every map with a numeric "id" and a "value" key,
\* buildUpdateProjectItem succeeds with a payload whose ID is that id and
\* whose Value is the supplied value, null included.
C11_PayloadHasThatId ==
    (BuildUpdateReturned /\ WellFormedUpdate) =>
        /\ call.out.err = NoError
        /\ call.out.payload # NilPointer
        /\ Num(call.out.payload.ID) = call.input.v["id"]
        /\ call.out.payload.Value = call.input.v["value"]

\* C11, amended: for every map with a numeric "id" and a "value" key,
\* buildUpdateProjectItem succeeds with a payload whose ID is the id with its
\* fraction dropped (the id itself when it is a whole number) and whose Value
\* is the supplied value unchanged; a null value is kept as null.
C11_PayloadHasWholeIdAndValue ==
    (BuildUpdateReturned /\ WellFormedUpdate) =>
        /\ call.out.err = NoError
        /\ call.out.payload # NilPointer
        /\ call.out.payload.ID = wholePart(call.input.v["id"])
        /\ ~ call.input.v["id"].half => Num(call.out.payload.ID) = call.input.v["id"]
        /\ call.out.payload.Value = call.input.v["value"]

C11_Witness ==
    /\ BuildUpdateReturned
    /\ hasNumericId(call.input)
    /\ call.input.v["id"] = Num(9)
    /\ hasKey(call.input, "value")
    /\ call.input.v["value"] = Null
    /\ call.out.err = NoError
    /\ call.out.payload = updateProjectItem(9, Null)

names(msg, key) == \E i \in DOMAIN msg : msg[i] = key

\* C12: buildUpdateProjectItem returns an error and a nil payload exactly when
\* the map is nil, "id" is absent, "id" is not a number or "value" is absent,
\* and succeeds otherwise; the error names the first offending key: "id" when
\* id is absent or mistyped, "value" when only the value is absent.
C12_ValidationErrors ==
    BuildUpdateReturned =>
        LET m == call.input
            failed == call.out.err # NoError
        IN  /\ failed <=> (m = NilMap \/ ~ hasNumericId(m) \/ ~ hasKey(m, "value"))
            /\ failed <=> call.out.payload = NilPointer
            /\ (m # NilMap /\ ~ hasNumericId(m)) => names(call.out.err, "id")
            /\ (hasNumericId(m) /\ ~ hasKey(m, "value")) =>
                 names(call.out.err, "value") /\ ~ names(call.out.err, "id")
            /\ m = NilMap => failed /\ ~ names(call.out.err, "id")

C12_Witness ==
    /\ BuildUpdateReturned
    /\ hasNumericId(call.input)
    /\ ~ hasKey(call.input, "value")
    /\ call.out.payload = NilPointer
    /\ names(call.out.err, "value")

(***************************************************************************)
(* Properties of the handlers' failures.                                   *)
(***************************************************************************)
Done == pc = "done"

\* The parameters an operation requires, and the JSON type of each.
requiredParams(o) ==
    CASE o = "list_projects" -> { "owner", "owner_type" }
      [] o \in { "get_project", "list_project_fields", "list_project_items" } ->
           { "owner", "owner_type", "project_number" }
      [] o = "get_project_field" ->
           { "owner", "owner_type", "project_number", "field_id" }
      [] o \in { "get_project_item", "delete_project_item" } ->
           { "owner", "owner_type", "project_number", "item_id" }
      [] o = "add_project_item" ->
           { "owner", "owner_type", "project_number", "item_id", "item_type" }
      [] o = "update_project_item" ->
           { "owner", "owner_type", "project_number", "item_id", "updated_field" }
      [] OTHER -> {}
paramType(p) ==
    CASE p \in { "owner", "owner_type", "item_type" } -> "string"
      [] p \in { "project_number", "item_id", "field_id" } -> "number"
      [] OTHER -> "object"
MissingOrMistyped == \E p \in requiredParams(op) : args[p].t # paramType(p)
InvalidUpdatedField ==
    /\ op = "update_project_item"
    /\ args["updated_field"].t = "object"
    /\ ~ (hasNumericId(args["updated_field"]) /\ hasKey(args["updated_field"], "value"))

\* C13: in every operation, when a required parameter is missing or mistyped,
\* or the updated_field of an update is structurally invalid, the handler
\* returns a caller-visible failure, obtains no client and issues no request.
C13_ParameterErrorsBeforeAnyRequest ==
    (Invoked /\ (MissingOrMistyped \/ InvalidUpdatedField)) =>
        /\ Done
        /\ result.kind = "error"
        /\ client = 0
        /\ ~ Sent
        /\ resp = NoResp

C13_Witness ==
    /\ Done
    /\ op = "update_project_item"
    /\ ~ MissingOrMistyped
    /\ InvalidUpdatedField
    /\ result.kind = "error"
    /\ client = 0

Answered == Done /\ resp # NoResp
AnsweredWithoutError == Answered /\ ~ resp.err

expectedStatus(o) ==
    CASE o = "add_project_item" -> StatusCreated
      [] o = "delete_project_item" -> StatusNoContent
      [] OTHER -> StatusOK
failureText(o) ==
    CASE o = "add_project_item" -> ProjectAddFailedError
      [] o = "update_project_item" -> ProjectUpdateFailedError
      [] o = "delete_project_item" -> ProjectDeleteFailedError
      [] OTHER -> ProjectListFailedError
UnexpectedStatus == AnsweredWithoutError /\ resp.StatusCode # expectedStatus(op)

C15_ListItemsNon2xxFails ==
    (op = "list_project_items" /\ AnsweredWithoutError
       /\ ~ (resp.StatusCode \in 200..299)) =>
        /\ result.kind = "error"
        /\ result.body = resp.Body
        /\ result.json = NoJSON

TransportFailed == Answered /\ resp.err

apiErrorText(o) ==
    CASE o = "list_projects" -> "failed to list projects"
      [] o = "get_project" -> "failed to get project"
      [] o = "list_project_fields" -> "failed to list project fields"
      [] o = "get_project_field" -> "failed to get project field"
      [] o = "list_project_items" -> ProjectListFailedError
      [] o = "get_project_item" -> "failed to get project item"
      [] o = "add_project_item" -> ProjectAddFailedError
      [] o = "update_project_item" -> ProjectUpdateFailedError
      [] OTHER -> ProjectDeleteFailedError

\* C16: in every operation, when the transport call returns an error, with or
\* without a response, the handler returns the API-error result built from the
\* operation's failure message, with a nil Go error: the result is neither a
\* fatal error nor a success value.
C16_TransportErrorIsApiError ==
    TransportFailed =>
        /\ result = GitHubAPIErrorResponse(apiErrorText(op))
        /\ result.kind = "apiError"
        /\ result.kind # "fatal"
        /\ result.json = NoJSON

C16_Witness ==
    /\ TransportFailed
    /\ op = "list_project_fields"
    /\ ~ resp.isNil
    /\ result.kind = "apiError"

\* C17: in every operation, once the transport has handed back a response,
\* the handler has closed the response body when it returns, on the success
\* path, the unexpected-status path and the transport-error path alike.
C17_BodyClosedOnEveryPath ==
    (Answered /\ ~ resp.isNil) => closed

(***************************************************************************)
(* Properties of concurrent invocations.                                   *)
(***************************************************************************)
Concurrent == call.fn = "invocations"
doneWith(i) == call.inv[i].pc = "done"
answeredIn(i) == doneWith(i) /\ call.inv[i].resp # NoResp
failedIn(i) == doneWith(i) /\ call.inv[i].result.kind # "text"

\* C18: under every interleaving of two invocations the special-type set
\* stays as it was initialised, the result of an invocation is the one the
\* handler gives for its own parameters and its own transport response when
\* it runs alone, and two invocations with the same parameters and the same
\* response have the same result, whatever the other one did, failed or not.
C18_InvocationsIndependent ==
    Concurrent =>
        /\ call.special = specialFieldDataTypes
        /\ \A i \in Invocations :
             /\ answeredIn(i) =>
                  call.inv[i].result = finishOf(call.inv[i].op, call.inv[i].resp).ret
             /\ (doneWith(i) /\ ~ answeredIn(i)) =>
                  \E ok \in BOOLEAN :
                     \E out \in startOf(call.inv[i].op, call.inv[i].args, ok) :
                        out.sent = << >> /\ out.ret = call.inv[i].result
        /\ \A i, j \in Invocations :
             (doneWith(i) /\ doneWith(j)
                /\ call.inv[i].op = call.inv[j].op
                /\ call.inv[i].args = call.inv[j].args
                /\ call.inv[i].client = call.inv[j].client
                /\ call.inv[i].resp = call.inv[j].resp) =>
                call.inv[i].result = call.inv[j].result

C18_Witness ==
    /\ Concurrent
    /\ failedIn("first")
    /\ call.inv["first"].op = "list_project_fields"
    /\ call.inv["first"].resp # NoResp
    /\ answeredIn("second")
    /\ call.inv["second"].op = "list_project_fields"
    /\ call.inv["second"].result.kind = "text"
    /\ Len(call.inv["second"].resp.v) = 2
    /\ Len(call.inv["second"].result.json.fields) = 1

(***************************************************************************)
(* Properties of the requests.                                             *)
(***************************************************************************)
\* C19: in add_project_item, item_type "issue" gives a request body of type
\* "Issue" and "pull_request" gives "PullRequest"; any other item_type is
\* rejected with a failure before a client is obtained, so no request with
\* an empty or other type is sent.
C19_ItemTypeMapped ==
    (Invoked /\ op = "add_project_item") =>
        /\ Sent =>
             /\ sent[1].method = "POST"
             /\ args["item_type"] \in { Str(strIssue), Str(strPullRequest) }
             /\ args["item_type"] = Str(strIssue) => sent[1].body.Type = strIssueType
             /\ args["item_type"] = Str(strPullRequest) =>
                  sent[1].body.Type = strPullRequestType
             /\ sent[1].body.Type \in { strIssueType, strPullRequestType }
        /\ (~ MissingOrMistyped
              /\ args["item_type"] \notin { Str(strIssue), Str(strPullRequest) }) =>
             /\ Done
             /\ result.kind = "error"
             /\ client = 0
             /\ ~ Sent

C19_Witness ==
    /\ op = "add_project_item"
    /\ args["item_type"] = Str(strPullRequest)
    /\ Sent
    /\ sent[1].body = newProjectItem(5, strPullRequestType)

segOrgs == << "o", "r", "g", "s" >>
segUsers == << "u", "s", "e", "r", "s" >>
segProjectsV2 == << "p", "r", "o", "j", "e", "c", "t", "s", "V", "2" >>
segFields == << "f", "i", "e", "l", "d", "s" >>
segItems == << "i", "t", "e", "m", "s" >>

\* The segments that follow the project number in the path of an operation.
pathSuffix(o, a) ==
    CASE o = "list_project_fields" -> << segFields >>
      [] o = "get_project_field" -> << segFields, Itoa(a["field_id"].v) >>
      [] o \in { "list_project_items", "add_project_item" } -> << segItems >>
      [] OTHER -> << segItems, Itoa(a["item_id"].v) >>

BuildsPath == Sent /\ sent[1].api = "Do"

\* C20: in every operation that builds a path, the owner type alone selects
\* the template: "org" gives orgs/{owner}/ and "user" gives users/{owner}/,
\* followed in both by projectsV2, the project number and the same item or
\* field suffix.
C20_OwnerTypeSelectsTemplate ==
    BuildsPath =>
        LET segs == splitOn(pathOf(sent[1].url), "/")
        IN  /\ args["owner_type"] = Str(strOrg) => segs[1] = segOrgs
            /\ args["owner_type"] = Str(strUser) => segs[1] = segUsers
            /\ segs[1] \in { segOrgs, segUsers }
            /\ SubSeq(segs, 2, Len(segs)) =
                 << args["owner"].v, segProjectsV2, Itoa(args["project_number"].v) >>
                   \o pathSuffix(op, args)

C20_Witness ==
    /\ BuildsPath
    /\ op = "delete_project_item"
    /\ args["owner_type"] = Str(strUser)
    /\ splitOn(sent[1].url, "/") =
         << segUsers, goodOwner, segProjectsV2, << "7" >>, segItems, << "5" >> >>

\* C21: every request update_project_item sends is a PATCH whose body holds a
\* fields list of exactly one element, the payload buildUpdateProjectItem
\* returns for the caller's updated_field: its id (as an integer) and its
\* value unchanged.
C21_SingletonUpdatePayload ==
    (op = "update_project_item" /\ Sent) =>
        LET body == sent[1].body
            built == buildUpdateProjectItem(args["updated_field"])
        IN  /\ sent[1].method = "PATCH"
            /\ body.t = "updateProjectItemPayload"
            /\ Len(body.Fields) = 1
            /\ built.err = NoError
            /\ body.Fields[1] = built.payload
            /\ body.Fields[1].ID = wholePart(args["updated_field"].v["id"])
            /\ body.Fields[1].Value = args["updated_field"].v["value"]

C21_Witness ==
    /\ op = "update_project_item"
    /\ Sent
    /\ args["updated_field"].v["value"] = Null
    /\ sent[1].body = updateProjectItemPayload(<< updateProjectItem(9, Null) >>)

(***************************************************************************)
(* Properties of paging.                                                   *)
(***************************************************************************)
PagingRequested == call.fn = "paging" /\ call.stage = 2

\* The value the request in flight carries under a cursor key, or no value.
carriesCursor(req, key, c) ==
    IF req.api = "Do"
    THEN key \in queryKeys(req.url) /\ queryValue(req.url, key) = c
    ELSE IF key = keyAfter THEN req.opts.After = c ELSE req.opts.Before = c

\* C22: when a list call returned nextCursor = c and the caller passes c as
\* after in its next call, that call is not rejected and the request it sends
\* carries, under the after key, the after-token of the previous response;
\* likewise for prevCursor, before and the before-token.
C22_CursorsRoundTrip ==
    PagingRequested =>
        /\ call.sent # << >>
        /\ call.passed = "after" =>
             /\ call.args["after"] = Str(call.resp.After)
             /\ carriesCursor(call.sent[1], keyAfter, call.resp.After)
        /\ call.passed = "before" =>
             /\ call.args["before"] = Str(call.resp.Before)
             /\ carriesCursor(call.sent[1], keyBefore, call.resp.Before)

C22_Witness ==
    /\ PagingRequested
    /\ call.op = "list_project_items"
    /\ call.passed = "after"
    /\ call.resp.After = << "=", " " >>
    /\ call.sent # << >>
    /\ queryValue(call.sent[1].url, keyAfter) = << "=", " " >>

(***************************************************************************)
(* Properties of the requests of the list operations.                      *)
(***************************************************************************)
NoPageSizeSupplied == args["per_page"] = Absent

\* C23 as stated: when the caller supplies no page size, the issued list
\* request contains no per_page key.
C23_NoPerPageKeyByDefault ==
    (op \in ListOps /\ Sent /\ NoPageSizeSupplied) =>
        IF sent[1].api = "Do"
        THEN keyPerPage \notin queryKeys(sent[1].url)
        ELSE sent[1].opts.PerPage = 0

\* C23, amended: when the caller supplies no page size, or zero, the page size
\* is MaxProjectsPerPage and the issued list request carries per_page=50.
C23_DefaultPageSizeIsSent ==
    (op \in ListOps /\ Sent /\ (NoPageSizeSupplied \/ args["per_page"] = Num(0))) =>
        /\ extractPaginationOptions(args).opts.PerPage = MaxProjectsPerPage
        /\ carriesPerPage(sent[1], MaxProjectsPerPage)

C23_Witness ==
    /\ op = "list_project_fields"
    /\ Sent
    /\ NoPageSizeSupplied
    /\ keyPerPage \in queryKeys(sent[1].url)
    /\ queryValue(sent[1].url, keyPerPage) = << "5", "0" >>

(***************************************************************************)
(* Properties of the operations that call addOptions.                      *)
(***************************************************************************)
AddOptionsOps == { "list_project_fields", "list_project_items", "get_project_item" }

\* The base path the running operation hands to addOptions.
basePath ==
    LET ownerType == RequiredParam(args, "owner_type").v
        owner == RequiredParam(args, "owner").v
        n == RequiredInt(args, "project_number").v
    IN  CASE op = "list_project_fields" -> listProjectFieldsURL(ownerType, owner, n)
          [] op = "list_project_items" -> listProjectItemsURL(ownerType, owner, n)
          [] op = "get_project_item" ->
               getProjectItemURL(ownerType, owner, n, RequiredInt(args, "item_id").v)

\* The handler has passed its parameter tests and obtained a client.
ReachedAddOptions ==
    /\ op \in AddOptionsOps
    /\ pc # "idle"
    /\ client = 1
    /\ ~ (pc = "done" /\ resp = NoResp /\ result.kind = "error" /\ result.text = "getClient")

addOptionsFailure(o) ==
    IF o = "get_project_item" THEN ToolResultError("addOptions", "")
    ELSE FatalError("failed to add options to request")

\* C24: when the base path given to addOptions is not a syntactically valid
\* path, addOptions returns an error with the path unchanged, and the calling
\* operation (list fields, list items, get item) ends in a failure without
\* issuing any request.
C24_InvalidBasePathFailsUnsent ==
    (ReachedAddOptions /\ urlParse(basePath).err) =>
        /\ \A w \in addOptions(basePath, paginationOptions(MaxProjectsPerPage, EmptyString, EmptyString)) :
              w.err /\ w.url = basePath
        /\ pc = "done"
        /\ ~ Sent
        /\ resp = NoResp
        /\ result = addOptionsFailure(op)
        /\ result.kind \in { "fatal", "error" }

C24_Witness ==
    /\ op = "get_project_item"
    /\ ReachedAddOptions
    /\ args["owner"] = Str(badOwner)
    /\ urlParse(basePath).err
    /\ pc = "done"
    /\ result.kind = "error"
    /\ ~ Sent

(***************************************************************************)
(* Properties of the number of requests.                                   *)
(***************************************************************************)
\* The status test of the running handler has failed.
StatusTestFailed == op \in StatusCheckedOps /\ UnexpectedStatus

PureCalled == call.fn = "pure" /\ call.stage >= 1

\* C26: filterSpecialTypes is pure: a call leaves its input sequence (length,
\* elements and order) and the special-type set unchanged and writes no other
\* state, and its result depends only on the input sequence: a second call on
\* the same sequence returns the same result.
C26_FilterIsPure ==
    PureCalled =>
        /\ call.fields = call.in
        /\ Len(call.fields) = Len(call.in)
        /\ call.special = specialFieldDataTypes
        /\ HandlersIdle
        /\ call.out = filterSpecialTypes(call.in)
        /\ call.stage = 2 => call.again = call.out

C26_Witness ==
    /\ call.fn = "pure"
    /\ call.stage = 2
    /\ Len(call.in) = 3
    /\ call.in[1].DataType = labels
    /\ call.in[2].DataType = text
    /\ call.in[3].isNil
    /\ Len(call.out) = 2
    /\ call.out[1] = call.in[2]
    /\ call.fields = call.in

(***************************************************************************)
(* Properties of owner types outside the documented two.                   *)
(***************************************************************************)
\* The caller gave an owner type that is a non-empty string other than "org".
OwnerTypeNotOrg ==
    /\ Invoked
    /\ args["owner_type"].t = "string"
    /\ args["owner_type"].v \notin { strOrg, EmptyString }

asUser == [args EXCEPT !["owner_type"] = Str(strUser)]

\* C27: an owner_type that is neither "org" nor "user" is not rejected: every
\* value other than "org" makes the handler do exactly what it does for
\* "user", with or without a client, so that a call that issues no request has
\* failed for another reason; and when a request is issued it is the
\* users/{owner}/ one (the ForUser method where the handler calls
\* client.Projects).
C27_UnknownOwnerTypeIsUser ==
    OwnerTypeNotOrg =>
        /\ args["owner_type"] # Str(strUser) =>
              /\ \A ok \in BOOLEAN : startOf(op, args, ok) = startOf(op, asUser, ok)
              /\ ~ Sent => pc = "done" /\ result.kind \in { "error", "fatal" }
        /\ Sent =>
             IF sent[1].api = "Do"
             THEN splitOn(pathOf(sent[1].url), "/")[1] = segUsers
             ELSE sent[1].api \in { "ListProjectsForUser", "GetProjectForUser" }

C27_Witness ==
    /\ OwnerTypeNotOrg
    /\ args["owner_type"] = Str(strTeam)
    /\ op = "list_project_fields"
    /\ Sent
    /\ splitOn(pathOf(sent[1].url), "/")[1] = segUsers
    /\ splitOn(pathOf(sent[1].url), "/")[2] = goodOwner

==========================================================================
